---------------------------- MODULE Spec2Model ----------------------------
(***************************************************************************)
(* Model of the solar PV design optimiser: the Scenario engine             *)
(* (src/src/scenario.py), the capacity sweep (src/src/pv_sizing.py), the   *)
(* two-variable sensitivity (src/src/sensitivity.py) and the page handlers *)
(* that drive them (src/src/scenario_page.py, src/src/sensitivity_page.py).*)
(*                                                                         *)
(* Numbers.  The program computes in IEEE floats.  The model computes in   *)
(* exact extended rationals: a number is a pair <<n, d>>; d > 0 is the     *)
(* reduced fraction n/d, <<0,0>> is NaN, <<1,0>> is +inf, <<-1,0>> is -inf.*)
(* Float rounding error is not modelled; NaN and infinity, which numpy     *)
(* produces instead of raising on a division by zero, are.                 *)
(***************************************************************************)
EXTENDS Integers, Sequences, FiniteSets, TLC

(***************************************************************************)
(* Extended rational arithmetic (numpy float64 semantics, exact).          *)
(***************************************************************************)
Abs(i) == IF i < 0 THEN -i ELSE i

Sgn(i) == IF i < 0 THEN -1 ELSE IF i > 0 THEN 1 ELSE 0

RECURSIVE GCD(_, _)
GCD(a, b) == IF b = 0 THEN a ELSE GCD(b, a % b)

\* the reduced fraction n/d, d # 0
Frac(n, d) ==
    LET g == GCD(Abs(n), Abs(d))
    IN  <<Sgn(d) * (n \div g), Abs(d) \div g>>

Num(i) == <<i, 1>>

NaN == <<0, 0>>

Inf(s) == <<s, 0>>

Zero == <<0, 1>>

One == <<1, 1>>

IsNaN(x) == x[2] = 0 /\ x[1] = 0

IsInf(x) == x[2] = 0 /\ x[1] # 0

IsFinite(x) == x[2] > 0

Neg(x) == <<-x[1], x[2]>>

Add(x, y) ==
    IF IsNaN(x) \/ IsNaN(y) THEN NaN
    ELSE IF IsInf(x) /\ IsInf(y) THEN (IF x[1] = y[1] THEN x ELSE NaN)
    ELSE IF IsInf(x) THEN x
    ELSE IF IsInf(y) THEN y
    ELSE LET g == GCD(x[2], y[2])
         IN  Frac(x[1] * (y[2] \div g) + y[1] * (x[2] \div g),
                  (x[2] \div g) * y[2])

Sub(x, y) == Add(x, Neg(y))

Mul(x, y) ==
    IF IsNaN(x) \/ IsNaN(y) THEN NaN
    ELSE IF IsInf(x) \/ IsInf(y)
         THEN (IF x[1] = 0 \/ y[1] = 0 THEN NaN ELSE Inf(Sgn(x[1]) * Sgn(y[1])))
    ELSE LET g1 == GCD(Abs(x[1]), y[2])
             g2 == GCD(Abs(y[1]), x[2])
         IN  <<(x[1] \div g1) * (y[1] \div g2), (x[2] \div g2) * (y[2] \div g1)>>

\* float division: x/0 is NaN or +-inf, never an exception
Div(x, y) ==
    IF IsNaN(x) \/ IsNaN(y) THEN NaN
    ELSE IF IsInf(y) THEN (IF IsInf(x) THEN NaN ELSE Zero)
    ELSE IF IsInf(x) THEN (IF y[1] < 0 THEN Neg(x) ELSE x)
    ELSE IF y[1] = 0 THEN (IF x[1] = 0 THEN NaN ELSE Inf(Sgn(x[1])))
    ELSE Mul(x, Frac(y[2], y[1]))

\* x < y; false when either is NaN
Lt(x, y) ==
    IF IsNaN(x) \/ IsNaN(y) THEN FALSE
    ELSE IF IsInf(x) \/ IsInf(y)
         THEN (IF IsInf(x) /\ IsInf(y) THEN x[1] < y[1]
               ELSE IF IsInf(x) THEN x[1] < 0 ELSE y[1] > 0)
    ELSE LET g == GCD(x[2], y[2])
         IN  x[1] * (y[2] \div g) < y[1] * (x[2] \div g)

Le(x, y) == ~IsNaN(x) /\ ~IsNaN(y) /\ ~Lt(y, x)

AbsR(x) == <<Abs(x[1]), x[2]>>

RECURSIVE Pow(_, _)
Pow(x, k) == IF k = 0 THEN One ELSE Mul(x, Pow(x, k - 1))

RECURSIVE IPow(_, _)
IPow(b, k) == IF k = 0 THEN 1 ELSE b * IPow(b, k - 1)

\* floor of the finite number x
Floor(x) == x[1] \div x[2]

\* round half to even to an integer (Python round(x), numpy rint), x finite
RoundInt(x) ==
    LET q == Floor(x)
        r == x[1] - q * x[2]
    IN  IF 2 * r < x[2] THEN q
        ELSE IF 2 * r > x[2] THEN q + 1
        ELSE IF q % 2 = 0 THEN q ELSE q + 1

\* round(x, k): half to even at k decimals; NaN and inf pass through
Round(x, k) ==
    IF ~IsFinite(x) THEN x
    ELSE Frac(RoundInt(Mul(x, Num(IPow(10, k)))), IPow(10, k))

MinR(x, y) == IF Lt(y, x) THEN y ELSE x

MaxR(x, y) == IF Lt(x, y) THEN y ELSE x

(***************************************************************************)
(* pandas reductions over a column given as a function on a finite index   *)
(* set of integers: sum() and mean() skip NaN. The fold runs in index      *)
(* order.                                                                  *)
(***************************************************************************)
RECURSIVE SumFrom(_, _, _)
SumFrom(col, lo, hi) ==
    IF lo > hi THEN Zero
    ELSE IF IsNaN(col[lo]) THEN SumFrom(col, lo + 1, hi)
    ELSE Add(col[lo], SumFrom(col, lo + 1, hi))

\* Series.sum() of a column indexed lo..hi
ColSum(col, lo, hi) == SumFrom(col, lo, hi)

\* Series.mean() of a column indexed lo..hi
ColMean(col, lo, hi) ==
    LET n == Cardinality({i \in lo..hi : ~IsNaN(col[i])})
    IN  Div(SumFrom(col, lo, hi), Num(n))

\* Series.sum() of an hourly column (a sequence)
SeqSum(s) == SumFrom(s, 1, Len(s))

\* the function f itself, built once (TLC otherwise re-evaluates the body of
\* [x \in S |-> e] at every application)
Eager(f) == f @@ <<>>


(***************************************************************************)
(* Bounds of the model.                                                    *)
(***************************************************************************)
\* hours in a profile (8760 in a real upload)
NumHours == 2

\* largest study period a form submission of the session model asks for
MaxStudyPeriod == 2

Hours == 1..NumHours

(***************************************************************************)
(* Inputs (scenario.py, class Inputs).  A field holds the .value of its    *)
(* UnitVar; the unit of a field is fixed by _convert_to_unit_variables.    *)
(***************************************************************************)
\* the unit _convert_to_unit_variables gives each field
UnitOf(name) ==
    CASE name \in {"postproc_losses", "discount_rate", "pv_degradation",
                   "opex_increase", "loan", "loan_rate", "import_increase",
                   "export_increase"} -> "%"
      [] name \in {"study_period", "loan_period"} -> "yrs"
      [] name \in {"pv_capacity", "ref_capacity"} -> "kWp"
      [] name \in {"load", "ref_yield"} -> "kWh"
      [] name = "ref_specific_yield" -> "kWh/kWp"
      [] name \in {"devex", "capex", "opex"} -> "cur/kWp"
      [] name \in {"import_tariff", "export_tariff"} -> "cur/kWh"
      [] OTHER -> "NA"

\* format_file_inputs without the clipping of line 100
format_file_inputs_unclipped(load, E_Grid, ref_capacity, postproc_losses) ==
    LET enPV_ref == [h \in Hours |-> Mul(E_Grid[h], Sub(One, postproc_losses))]
        SY       == [h \in Hours |-> Div(enPV_ref[h], ref_capacity)]
    IN  [load |-> load,
         ref_yield |-> [E_Grid |-> E_Grid, enPV_ref |-> enPV_ref, SY |-> SY],
         ref_specific_yield |-> SY]

\* Inputs._format_file_inputs: the raw E_Grid column is clipped at zero in
\* place, then 'enPV ref' and 'SY' are added to the reference-yield table
format_file_inputs(load, E_Grid, ref_capacity, postproc_losses) ==
    LET clipped == [h \in Hours |-> IF Lt(E_Grid[h], Zero) THEN Zero ELSE E_Grid[h]]
        enPV_ref == [h \in Hours |-> Mul(clipped[h], Sub(One, postproc_losses))]
        SY       == [h \in Hours |-> Div(enPV_ref[h], ref_capacity)]
    IN  [load |-> load,
         ref_yield |-> [E_Grid |-> clipped, enPV_ref |-> enPV_ref, SY |-> SY],
         ref_specific_yield |-> SY]

\* Inputs.__post_init__ on the keyword arguments kw (a record of values,
\* ref_specific_yield = <<>> standing for None)
InputsInit(kw) ==
    IF kw.ref_specific_yield = <<>>
    THEN LET f == format_file_inputs(kw.load, kw.ref_yield.E_Grid,
                                      kw.ref_capacity, kw.postproc_losses)
         IN  [kw EXCEPT !.load = f.load, !.ref_yield = f.ref_yield,
                        !.ref_specific_yield = f.ref_specific_yield]
    ELSE kw

(***************************************************************************)
(* Scenario engine (scenario.py, class Scenario).                          *)
(***************************************************************************)
Years(inp) == 1..RoundInt(inp.study_period)

\* degraded capacity of a year (scenario.py line 188); y - 0.5 = (2y-1)/2
capacity_dc_degr(inp, year) ==
    Mul(inp.pv_capacity,
        Sub(One, Mul(inp.pv_degradation, Frac(2 * year - 1, 2))))

\* energy_balance_year without the two "else 0" assignments (lines 205, 209)
energy_balance_year_unmasked(inp, year) ==
    LET enLoad == inp.load
        enPV_total == Eager([h \in Hours |->
                          Mul(inp.ref_specific_yield[h], capacity_dc_degr(inp, year))])
        energy_shortfall == Eager([h \in Hours |-> Lt(enPV_total[h], enLoad[h])])
    IN  [enLoad |-> enLoad,
         enPV_total |-> enPV_total,
         enPV_self_cons |-> [h \in Hours |->
               IF energy_shortfall[h] THEN enPV_total[h] ELSE enLoad[h]],
         enGrid_import |-> [h \in Hours |-> Sub(enLoad[h], enPV_total[h])],
         enGrid_export |-> [h \in Hours |-> Sub(enPV_total[h], enLoad[h])]]

\* one year's hourly table of Scenario._calc_annual_energy_balance
energy_balance_year(inp, year) ==
    LET enLoad == inp.load
        enPV_total == Eager([h \in Hours |->
                          Mul(inp.ref_specific_yield[h], capacity_dc_degr(inp, year))])
        energy_shortfall == Eager([h \in Hours |-> Lt(enPV_total[h], enLoad[h])])
    IN  [enLoad |-> enLoad,
         enPV_total |-> enPV_total,
         enPV_self_cons |-> [h \in Hours |->
               IF energy_shortfall[h] THEN enPV_total[h] ELSE enLoad[h]],
         enGrid_import |-> [h \in Hours |->
               IF energy_shortfall[h] THEN Sub(enLoad[h], enPV_total[h]) ELSE Zero],
         enGrid_export |-> [h \in Hours |->
               IF energy_shortfall[h] THEN Zero ELSE Sub(enPV_total[h], enLoad[h])]]

\* Scenario._calc_annual_energy_balance
calc_annual_energy_balance(inp) ==
    Eager([year \in Years(inp) |-> energy_balance_year(inp, year)])

Thousand == Num(1000)

\* calc_energy_balance_summary with the PV usage taken as the share of the
\* load instead of the share of the PV energy
calc_energy_balance_summary_usage_of_load(energy_balance) ==
    Eager([year \in DOMAIN energy_balance |->
        LET data == energy_balance[year]
            load == Div(SeqSum(data.enLoad), Thousand)
            total == Div(SeqSum(data.enPV_total), Thousand)
            selfc == Div(SeqSum(data.enPV_self_cons), Thousand)
        IN  [enLoad |-> load,
             enPV_total |-> total,
             enPV_self_cons |-> selfc,
             enGrid_import |-> Div(SeqSum(data.enGrid_import), Thousand),
             enGrid_export |-> Div(SeqSum(data.enGrid_export), Thousand),
             PV_self_cons_pct |-> Div(selfc, load),
             PV_usage_pct |-> Div(selfc, load),
             pct_scale |-> 0]])

\* Scenario._calc_energy_balance_summary: annual sums in MWh and the two
\* ratios.  The ratio columns hold PV_self_cons_pct and PV_usage_pct times
\* 100^pct_scale; the exponent is kept apart so that repeated scaling stays
\* within the integers of the rationals
calc_energy_balance_summary(energy_balance) ==
    Eager([year \in DOMAIN energy_balance |->
        LET data == energy_balance[year]
            load == Div(SeqSum(data.enLoad), Thousand)
            total == Div(SeqSum(data.enPV_total), Thousand)
            selfc == Div(SeqSum(data.enPV_self_cons), Thousand)
        IN  [enLoad |-> load,
             enPV_total |-> total,
             enPV_self_cons |-> selfc,
             enGrid_import |-> Div(SeqSum(data.enGrid_import), Thousand),
             enGrid_export |-> Div(SeqSum(data.enGrid_export), Thousand),
             PV_self_cons_pct |-> Div(selfc, load),
             PV_usage_pct |-> Div(selfc, total),
             pct_scale |-> 0]])

total_investment(inp) == Mul(Add(inp.capex, inp.devex), inp.pv_capacity)

\* numpy_financial.pmt(rate, nper, pv) with fv = 0, when = 'end'
\* (called at scenario.py lines 258 and 305)
pmt(rate, nper, pv) ==
    LET temp == Pow(Add(One, rate), nper)
        fact == IF rate = Zero THEN Num(nper)
                ELSE Div(Sub(temp, One), rate)
    IN  Neg(Div(Mul(pv, temp), fact))

\* the cash balance chain of a cashflow column cf indexed 0..N
RECURSIVE CashBalance(_, _)
CashBalance(cf, year) ==
    IF year = 0 THEN cf[0] ELSE Add(CashBalance(cf, year - 1), cf[year])

\* loan_payment without the test on the loan period: paid in every year
loan_payment_every_year(inp, year) ==
    Neg(Round(pmt(inp.loan_rate, RoundInt(inp.loan_period),
                  Mul(inp.loan, total_investment(inp))), 2))

\* the undiscounted loan payment of a year (scenario.py lines 256-259)
loan_payment(inp, year) ==
    IF Le(Num(year), inp.loan_period)
    THEN Neg(Round(pmt(inp.loan_rate, RoundInt(inp.loan_period),
                       Mul(inp.loan, total_investment(inp))), 2))
    ELSE Zero

\* cashflow_row with the import costs taken off the cashflow
cashflow_row_net_of_imports(inp, ebs, year) ==
    LET e == ebs[year]
        import_tariff == Mul(inp.import_tariff, Pow(Add(One, inp.import_increase), year))
        export_tariff == Mul(inp.export_tariff, Pow(Add(One, inp.export_increase), year))
        combined_tariff == Add(Mul(e.PV_usage_pct, import_tariff),
                               Mul(Sub(One, e.PV_usage_pct), export_tariff))
        revenues == Mul(combined_tariff, Mul(e.enPV_total, Thousand))
        import_costs == Mul(import_tariff, Mul(e.enGrid_import, Thousand))
        opex == Mul(Mul(inp.opex, Pow(Add(One, inp.opex_increase), year)), inp.pv_capacity)
        loan == loan_payment(inp, year)
    IN  [enLoad |-> e.enLoad, enPV_total |-> e.enPV_total,
         enPV_self_cons |-> e.enPV_self_cons,
         enGrid_import |-> e.enGrid_import, enGrid_export |-> e.enGrid_export,
         import_tariff |-> import_tariff, export_tariff |-> export_tariff,
         combined_tariff |-> combined_tariff,
         import_costs |-> import_costs,
         export_sales |-> Mul(export_tariff, Mul(e.enGrid_export, Thousand)),
         enPV_revenues |-> revenues,
         opex |-> opex,
         loan_payment |-> loan,
         cashflow |-> Sub(Sub(Add(Neg(opex), revenues), loan), import_costs)]

\* one row (year >= 1) of Scenario._calc_cashflow, before the cash balance
cashflow_row(inp, ebs, year) ==
    LET e == ebs[year]
        import_tariff == Mul(inp.import_tariff, Pow(Add(One, inp.import_increase), year))
        export_tariff == Mul(inp.export_tariff, Pow(Add(One, inp.export_increase), year))
        combined_tariff == Add(Mul(e.PV_usage_pct, import_tariff),
                               Mul(Sub(One, e.PV_usage_pct), export_tariff))
        revenues == Mul(combined_tariff, Mul(e.enPV_total, Thousand))
        opex == Mul(Mul(inp.opex, Pow(Add(One, inp.opex_increase), year)), inp.pv_capacity)
        loan == loan_payment(inp, year)
    IN  [enLoad |-> e.enLoad, enPV_total |-> e.enPV_total,
         enPV_self_cons |-> e.enPV_self_cons,
         enGrid_import |-> e.enGrid_import, enGrid_export |-> e.enGrid_export,
         import_tariff |-> import_tariff, export_tariff |-> export_tariff,
         combined_tariff |-> combined_tariff,
         import_costs |-> Mul(import_tariff, Mul(e.enGrid_import, Thousand)),
         export_sales |-> Mul(export_tariff, Mul(e.enGrid_export, Thousand)),
         enPV_revenues |-> revenues,
         opex |-> opex,
         loan_payment |-> loan,
         cashflow |-> Sub(Add(Neg(opex), revenues), loan)]

\* the row of year 0: only 'cashflow' (and then 'cash balance') is set
year0_row(inp) ==
    [enLoad |-> NaN, enPV_total |-> NaN, enPV_self_cons |-> NaN,
     enGrid_import |-> NaN, enGrid_export |-> NaN,
     import_tariff |-> NaN, export_tariff |-> NaN, combined_tariff |-> NaN,
     import_costs |-> NaN, export_sales |-> NaN, enPV_revenues |-> NaN,
     opex |-> NaN, loan_payment |-> NaN,
     cashflow |-> Mul(Neg(total_investment(inp)), Sub(One, inp.loan))]

\* WithCashBalance without the accumulation: each year's balance is that
\* year's cashflow
WithCashBalance_not_cumulated(rows) ==
    Eager([y \in DOMAIN rows |->
        Eager([c \in DOMAIN rows[y] \cup {"cash_balance"} |->
            IF c = "cash_balance" THEN rows[y].cashflow ELSE rows[y][c]])])

\* a table with its 'cash balance' column filled from its 'cashflow' column
WithCashBalance(rows) ==
    LET cf == Eager([y \in DOMAIN rows |-> rows[y].cashflow])
    IN  Eager([y \in DOMAIN rows |->
            Eager([c \in DOMAIN rows[y] \cup {"cash_balance"} |->
                IF c = "cash_balance" THEN CashBalance(cf, y) ELSE rows[y][c]])])

\* Scenario._calc_cashflow: rows 0..study_period
calc_cashflow(inp, ebs) ==
    WithCashBalance(Eager([year \in {0} \cup DOMAIN ebs |->
                        IF year = 0 THEN year0_row(inp)
                        ELSE cashflow_row(inp, ebs, year)]))

\* discounted_row with the loan payment carried over from the cashflow table
\* undiscounted
discounted_row_loan_kept(inp, row, year) ==
    LET discount_rate == Pow(Add(One, inp.discount_rate), year)
        enPV_total == Div(row.enPV_total, discount_rate)
        revenues == Mul(row.combined_tariff, Mul(enPV_total, Thousand))
        opex == Div(row.opex, discount_rate)
    IN  [row EXCEPT !.enLoad = Div(row.enLoad, discount_rate),
                    !.enPV_total = enPV_total,
                    !.enPV_self_cons = Div(row.enPV_self_cons, discount_rate),
                    !.enGrid_import = Div(row.enGrid_import, discount_rate),
                    !.enGrid_export = Div(row.enGrid_export, discount_rate),
                    !.import_costs = Div(row.import_costs, discount_rate),
                    !.export_sales = Div(row.export_sales, discount_rate),
                    !.enPV_revenues = revenues,
                    !.opex = opex,
                    !.cashflow = Sub(Add(Neg(opex), revenues), row.loan_payment)]

\* discounted_row with the combined tariff discounted too, and the revenue
\* recomputed from it
discounted_row_tariff_discounted(inp, row, year) ==
    LET discount_rate == Pow(Add(One, inp.discount_rate), year)
        enPV_total == Div(row.enPV_total, discount_rate)
        combined_tariff == Div(row.combined_tariff, discount_rate)
        revenues == Mul(combined_tariff, Mul(enPV_total, Thousand))
        opex == Div(row.opex, discount_rate)
        loan == IF Le(Num(year), inp.loan_period)
                THEN Neg(Round(Div(pmt(inp.loan_rate, RoundInt(inp.loan_period),
                                       Mul(inp.loan, total_investment(inp))),
                                   discount_rate), 2))
                ELSE Zero
    IN  [row EXCEPT !.enLoad = Div(row.enLoad, discount_rate),
                    !.enPV_total = enPV_total,
                    !.enPV_self_cons = Div(row.enPV_self_cons, discount_rate),
                    !.enGrid_import = Div(row.enGrid_import, discount_rate),
                    !.enGrid_export = Div(row.enGrid_export, discount_rate),
                    !.combined_tariff = combined_tariff,
                    !.import_costs = Div(row.import_costs, discount_rate),
                    !.export_sales = Div(row.export_sales, discount_rate),
                    !.enPV_revenues = revenues,
                    !.opex = opex,
                    !.loan_payment = loan,
                    !.cashflow = Sub(Add(Neg(opex), revenues), loan)]

\* one row (year >= 1) of Scenario._calc_discounted_cashflow, before the
\* cash balance; row is the cashflow table's row of that year
discounted_row(inp, row, year) ==
    LET discount_rate == Pow(Add(One, inp.discount_rate), year)
        enPV_total == Div(row.enPV_total, discount_rate)
        revenues == Mul(row.combined_tariff, Mul(enPV_total, Thousand))
        opex == Div(row.opex, discount_rate)
        loan == IF Le(Num(year), inp.loan_period)
                THEN Neg(Round(Div(pmt(inp.loan_rate, RoundInt(inp.loan_period),
                                       Mul(inp.loan, total_investment(inp))),
                                   discount_rate), 2))
                ELSE Zero
    IN  [row EXCEPT !.enLoad = Div(row.enLoad, discount_rate),
                    !.enPV_total = enPV_total,
                    !.enPV_self_cons = Div(row.enPV_self_cons, discount_rate),
                    !.enGrid_import = Div(row.enGrid_import, discount_rate),
                    !.enGrid_export = Div(row.enGrid_export, discount_rate),
                    !.import_costs = Div(row.import_costs, discount_rate),
                    !.export_sales = Div(row.export_sales, discount_rate),
                    !.enPV_revenues = revenues,
                    !.opex = opex,
                    !.loan_payment = loan,
                    !.cashflow = Sub(Add(Neg(opex), revenues), loan)]

\* calc_discounted_cashflow discounting every row by one year more, year 0
\* included
calc_discounted_cashflow_year0(inp, cashflow) ==
    WithCashBalance(Eager([year \in DOMAIN cashflow |->
        IF year > 0 THEN discounted_row(inp, cashflow[year], year + 1)
        ELSE [cashflow[year] EXCEPT
                 !.cashflow = Div(@, Add(One, inp.discount_rate))]]))

\* Scenario._calc_discounted_cashflow: year 0 is left as it is
calc_discounted_cashflow(inp, cashflow) ==
    WithCashBalance(Eager([year \in DOMAIN cashflow |->
                        IF year > 0 THEN discounted_row(inp, cashflow[year], year)
                        ELSE cashflow[year]]))

\* a column of a table indexed by year
Column(table, c) == Eager([y \in DOMAIN table |-> table[y][c]])

\* the last year of a table indexed 0..N
LastYear(table) == Cardinality(DOMAIN table) - 1

TableSum(table, c) == ColSum(Column(table, c), 0, LastYear(table))

\* calc_LCOE returning the costs per kWh as they are, without the final * 1000
calc_LCOE_per_kWh(inp, discounted_cashflow) ==
    LET investment == total_investment(inp)
        equity == Mul(investment, Sub(One, inp.loan))
        loan_plus_interest == TableSum(discounted_cashflow, "loan_payment")
        opex == TableSum(discounted_cashflow, "opex")
        grid_import == TableSum(discounted_cashflow, "import_costs")
        grid_export == TableSum(discounted_cashflow, "export_sales")
        energy == Mul(TableSum(discounted_cashflow, "enPV_self_cons"), Thousand)
        load == Mul(TableSum(discounted_cashflow, "enLoad"), Thousand)
        costs == Sub(Add(Add(equity, loan_plus_interest), opex), grid_export)
    IN  [LCOE |-> Div(costs, energy),
         BLCOE |-> Div(Add(costs, grid_import), load)]

\* Scenario._calc_LCOE
calc_LCOE(inp, discounted_cashflow) ==
    LET investment == total_investment(inp)
        equity == Mul(investment, Sub(One, inp.loan))
        loan_plus_interest == TableSum(discounted_cashflow, "loan_payment")
        opex == TableSum(discounted_cashflow, "opex")
        grid_import == TableSum(discounted_cashflow, "import_costs")
        grid_export == TableSum(discounted_cashflow, "export_sales")
        energy == Mul(TableSum(discounted_cashflow, "enPV_self_cons"), Thousand)
        load == Mul(TableSum(discounted_cashflow, "enLoad"), Thousand)
        costs == Sub(Add(Add(equity, loan_plus_interest), opex), grid_export)
    IN  [LCOE |-> Mul(Div(costs, energy), Thousand),
         BLCOE |-> Mul(Div(Add(costs, grid_import), load), Thousand)]

(***************************************************************************)
(* Payback period (scenario.py lines 350-357).                             *)
(***************************************************************************)
\* points of the resampling grid per year of study period (line 355)
PointsPerYear == 100

\* decimals the grid years are rounded to (line 355)
GridDecimals == 2

\* new_ys in hundredths of a year: np.round(np.linspace(1, N, N*100), 2);
\* position p = 1..N*100 is numpy index p-1, its year 1 + (p-1)*(N-1)/(N*100-1)
new_ys(N, p) ==
    LET last == N * PointsPerYear - 1
    IN  RoundInt(<<IPow(10, GridDecimals) * (last + (p - 1) * (N - 1)), last>>)

\* ArgMinAbs without the abs(): the first position of the least value
RECURSIVE ArgMinSigned(_, _, _)
ArgMinSigned(v, lo, hi) ==
    IF lo = hi THEN lo
    ELSE LET mid == (lo + hi) \div 2
             l == ArgMinSigned(v, lo, mid)
             r == ArgMinSigned(v, mid + 1, hi)
         IN  IF IsNaN(v[l]) THEN r
             ELSE IF Lt(v[r], v[l]) THEN r ELSE l

\* ArgMinAbs stopping at the first zero crossing: the first position at which
\* v is zero or more, the last position when there is none
ArgFirstCrossing(v, lo, hi) ==
    LET S == {p \in lo..hi : ~IsNaN(v[p]) /\ Le(Zero, v[p])}
    IN  IF S = {} THEN hi ELSE CHOOSE p \in S : \A q \in S : p <= q

\* first position of lo..hi at which |v| is least, NaN skipped (abs().idxmin())
RECURSIVE ArgMinAbs(_, _, _)
ArgMinAbs(v, lo, hi) ==
    IF lo = hi THEN lo
    ELSE LET mid == (lo + hi) \div 2
             l == ArgMinAbs(v, lo, mid)
             r == ArgMinAbs(v, mid + 1, hi)
         IN  IF IsNaN(v[l]) THEN r
             ELSE IF Lt(AbsR(v[r]), AbsR(v[l])) THEN r ELSE l

\* Series.reindex(new_ys).interpolate(): the values at the grid positions.
\* A position whose rounded year is an index label with a value keeps it;
\* the others are filled linearly by POSITION between the nearest valid
\* neighbours, trailing ones with the last valid value, leading ones stay NaN.
interpolate(balance, N) ==
    LET M == N * PointsPerYear
        unit == IPow(10, GridDecimals)
        lab == SubSeq([p \in 1..M |-> new_ys(N, p)], 1, M)
        valid(p) == /\ lab[p] % unit = 0
                    /\ (lab[p] \div unit) \in DOMAIN balance
                    /\ ~IsNaN(balance[lab[p] \div unit])
        K == SelectSeq(SubSeq([p \in 1..M |-> p], 1, M), valid)
        Kset == {K[j] : j \in 1..Len(K)}
    IN  SubSeq([p \in 1..M |->
            IF p \in Kset THEN balance[lab[p] \div unit]
            ELSE LET j == Cardinality({k \in Kset : k < p})
                 IN  IF j = 0 THEN NaN
                     ELSE IF j = Len(K) THEN balance[lab[K[j]] \div unit]
                     ELSE LET a == K[j]
                              b == K[j + 1]
                              va == balance[lab[a] \div unit]
                              vb == balance[lab[b] \div unit]
                          IN  Add(va, Mul(Sub(vb, va), Frac(p - a, b - a)))], 1, M)

\* the payback period: the grid year at which |cash balance| is least;
\* NaN when every grid value is NaN
pay_back_period(balance, N) ==
    LET regression == interpolate(balance, N)
        p == ArgMinAbs(regression, 1, N * PointsPerYear)
    IN  IF IsNaN(regression[p]) THEN NaN
        ELSE Frac(new_ys(N, p), IPow(10, GridDecimals))

\* np.roots(values[::-1]) inside numpy_financial.irr raises LinAlgError
\* ("Array must not contain infs or NaNs"): the zeros at both ends of the
\* coefficients are stripped, and when more than one coefficient is left the
\* companion matrix, whose first row is -p[1:] / p[0], must be finite
irr_raises(cashflows) ==
    LET nonzero == {y \in DOMAIN cashflows : cashflows[y] # Zero}
        hi == CHOOSE y \in nonzero : \A z \in nonzero : z <= y
        lo == CHOOSE y \in nonzero : \A z \in nonzero : y <= z
    IN  /\ nonzero # {}
        /\ lo < hi
        /\ \E y \in lo..(hi - 1) :
               ~IsFinite(Div(Neg(cashflows[y]), cashflows[hi]))

\* the exception a Scenario build ends with
LinAlgError == <<"LinAlgError">>

\* numpy_financial.irr of the cashflow column, years 0..N:
\* the root of a polynomial, not a rational; kept as the uninterpreted term
\* irr(<cashflow column>) where np.roots does not raise
irr(cashflows) ==
    IF irr_raises(cashflows) THEN LinAlgError ELSE <<"irr", cashflows>>

\* Scenario._calc_summary: the one-row table, index = pv_capacity
calc_summary(inp, cashflow, discounted_cashflow) ==
    LET N == LastYear(cashflow)
        L == calc_LCOE(inp, discounted_cashflow)
        hundred == Num(100)
    IN  [index |-> inp.pv_capacity,
         load |-> TableSum(cashflow, "enLoad"),
         energy_pv_total |-> TableSum(cashflow, "enPV_total"),
         energy_pv_self_cons |-> TableSum(cashflow, "enPV_self_cons"),
         energy_grid_import |-> TableSum(cashflow, "enGrid_import"),
         energy_grid_export |-> TableSum(cashflow, "enGrid_export"),
         pv_self_cons |-> Mul(Div(TableSum(cashflow, "enPV_self_cons"),
                                  TableSum(cashflow, "enLoad")), hundred),
         pv_utilisation |-> Mul(Div(TableSum(cashflow, "enPV_self_cons"),
                                    TableSum(cashflow, "enPV_total")), hundred),
         capex |-> Mul(inp.capex, inp.pv_capacity),
         opex |-> ColMean(Column(cashflow, "opex"), 0, N),
         lcoe |-> L.LCOE,
         blcoe |-> L.BLCOE,
         npv |-> TableSum(discounted_cashflow, "cashflow"),
         irr |-> irr(Column(cashflow, "cashflow")),
         pay_back_period |-> pay_back_period(Column(cashflow, "cash_balance"),
                                             RoundInt(inp.study_period))]

\* the Inputs fields a Scenario copies from the inputs it is built from
\* (Scenario.__init__, scenario.py lines 135-157)
InputFields ==
    {"load", "ref_yield", "ref_capacity", "postproc_losses", "ref_specific_yield",
     "study_period", "discount_rate", "pv_capacity", "pv_degradation", "currency",
     "devex", "capex", "opex", "opex_increase", "loan", "loan_period", "loan_rate",
     "import_tariff", "export_tariff", "import_increase", "export_increase"}

\* Scenario(inputs): the Inputs fields re-initialised from inputs' values,
\* then the five derived tables.  A build that raises (in npf.irr, line 348)
\* makes no object; it is told by Raised
Scenario(inputs) ==
    LET self == InputsInit([f \in InputFields |-> inputs[f]])
        energy_balance == calc_annual_energy_balance(self)
        energy_balance_summary == calc_energy_balance_summary(energy_balance)
        cashflow == calc_cashflow(self, energy_balance_summary)
        discounted_cashflow == calc_discounted_cashflow(self, cashflow)
    IN  [inputs |-> self,
         energy_balance |-> energy_balance,
         energy_balance_summary |-> energy_balance_summary,
         cashflow |-> cashflow,
         discounted_cashflow |-> discounted_cashflow,
         data |-> calc_summary(self, cashflow, discounted_cashflow)]

\* Scenario.__init__ left by the exception of npf.irr
Raised(scenario) == scenario.data.irr = LinAlgError

\* AfterScenario of a build that scales the specific-yield series it was
\* handed in place instead of scaling a copy
AfterScenario_scaled(inputs) ==
    [inputs EXCEPT !.ref_specific_yield =
        [h \in Hours |-> Mul(@[h], capacity_dc_degr(inputs, 1))]]

\* Inputs as Scenario(inputs) leaves it.  The scenario receives each field's
\* value; only when the specific yield is missing does __post_init__ run
\* _format_file_inputs, which writes into the reference-yield table it was
\* handed, the very table inputs holds
AfterScenario(inputs) ==
    IF inputs.ref_specific_yield = <<>>
    THEN [inputs EXCEPT !.ref_yield =
             format_file_inputs(inputs.load, inputs.ref_yield.E_Grid,
                                inputs.ref_capacity,
                                inputs.postproc_losses).ref_yield]
    ELSE inputs

\* the UnitVar objects a Scenario shares with the Inputs it was built from:
\* none, Scenario.__init__ hands over each .value and __post_init__ wraps
\* them in UnitVars of its own
SharedUnitVars == {}

\* a Scenario after its inputs object was changed to inputs
Alias(scenario, inputs) ==
    [scenario EXCEPT !.inputs =
        [f \in InputFields |->
            IF f \in SharedUnitVars THEN inputs[f] ELSE scenario.inputs[f]]]

(***************************************************************************)
(* Displays and export of a Scenario (scenario_page.py).  Each maps the    *)
(* Scenario object it is handed to that object after the call.             *)
(***************************************************************************)
\* Scenario.format_summary: works on a copy of the summary row
format_summary(scenario) == scenario

\* create_excel_file: inputs.to_excel(), format_summary() and five writes
create_excel_file(inputs, scenario) == format_summary(scenario)

display_scenario_summary(scenario) == scenario

display_scenario_results(scenario) == format_summary(scenario)

\* the values x * 100 leaves as they are
Unscaled(x) == IsNaN(x) \/ IsInf(x) \/ x = Zero

\* display_energy_balance: the two ratio columns of the scenario's own
\* energy-balance summary are multiplied by 100 in place (line 322)
display_energy_balance(scenario) ==
    [scenario EXCEPT !.energy_balance_summary =
        [year \in DOMAIN @ |->
            LET row == @[year]
            IN  IF Unscaled(row.PV_self_cons_pct) /\ Unscaled(row.PV_usage_pct)
                THEN row
                ELSE [row EXCEPT !.pct_scale = @ + 1]]]

\* display_cashflow: slices and renames a copy
display_cashflow(scenario) == scenario

display_discounted_cashflow(scenario) == scenario

\* display_scenario: the five displays in the order of lines 264-275
display_scenario(scenario) ==
    display_discounted_cashflow(
        display_cashflow(
            display_energy_balance(
                display_scenario_results(
                    display_scenario_summary(scenario)))))

(***************************************************************************)
(* Capacity sweep (pv_sizing.py, class PVSizing).  A grid value is a pair  *)
(* [radicand, root] standing for radicand^(1/root): linspace gives         *)
(* rationals (root 1), logspace gives (max-min)^(i/(steps-1)).             *)
(***************************************************************************)
\* np.linspace(start, stop, num) as rationals
linspace(start, stop, num) ==
    [i \in 1..num |->
        IF num = 1 THEN start
        ELSE Add(start, Mul(Num(i - 1), Div(Sub(stop, start), Num(num - 1))))]

\* generate_pv_range with the log grid running up to var_max
generate_pv_range_to_max(var_min, var_max, steps, log_scale) ==
    IF log_scale
    THEN [i \in 1..steps |->
             IF steps = 1 THEN [radicand |-> One, root |-> 1]
             ELSE [radicand |-> Pow(var_max, i - 1), root |-> steps - 1]]
    ELSE LET r == linspace(var_min, var_max, steps)
         IN  [i \in 1..steps |-> [radicand |-> r[i], root |-> 1]]

\* PVSizing.generate_pv_range; math.log10 needs var_min < var_max
generate_pv_range(var_min, var_max, steps, log_scale) ==
    IF log_scale
    THEN [i \in 1..steps |->
             IF steps = 1 THEN [radicand |-> One, root |-> 1]
             ELSE [radicand |-> Pow(Sub(var_max, var_min), i - 1), root |-> steps - 1]]
    ELSE LET r == linspace(var_min, var_max, steps)
         IN  [i \in 1..steps |-> [radicand |-> r[i], root |-> 1]]

\* round(capacity) of a grid value: half to even; a root that is not a
\* rational is never half-way between two integers
RoundGrid(g) ==
    IF g.root = 1 THEN RoundInt(g.radicand)
    ELSE LET n == g.radicand[1]
             d == g.radicand[2]
             two == IPow(2, g.root)
         IN  CHOOSE k \in 0..(n \div d + 1) :
                /\ (k = 0 \/ IPow(2 * k - 1, g.root) * d <= two * n)
                /\ two * n < IPow(2 * k + 1, g.root) * d

\* the element of a one-element set
Only(S) == CHOOSE x \in S : TRUE

\* sweep_step on a clone of the inputs: the shared inputs stay as they were
sweep_step_clone(st, capacity) ==
    IF st.raised THEN st
    ELSE LET key == RoundGrid(capacity)
             clone == [st.inputs EXCEPT !.pv_capacity = Num(key)]
         IN  Only({IF Raised(scenario)
                   THEN [st EXCEPT !.inputs = st.inputs, !.raised = TRUE]
                   ELSE [inputs |-> st.inputs,
                         keys |-> IF key \in DOMAIN st.scenario THEN st.keys
                                  ELSE Append(st.keys, key),
                         scenario |-> [k \in DOMAIN st.scenario \cup {key} |->
                                          IF k = key THEN scenario ELSE st.scenario[k]],
                         raised |-> FALSE] :
                  scenario \in {Scenario(clone)}})

\* sweep_step with every Scenario sharing the summary row of the first one
\* built in the sweep
sweep_step_shared_row(st, capacity) ==
    IF st.raised THEN st
    ELSE LET key == RoundGrid(capacity)
             assigned == [st.inputs EXCEPT !.pv_capacity = Num(key)]
             after == AfterScenario(assigned)
         IN  Only({IF Raised(scenario)
                   THEN [st EXCEPT !.inputs = after, !.raised = TRUE]
                   ELSE [inputs |-> after,
                         keys |-> IF key \in DOMAIN st.scenario THEN st.keys
                                  ELSE Append(st.keys, key),
                         scenario |-> [k \in DOMAIN st.scenario \cup {key} |->
                                          IF k # key THEN Alias(st.scenario[k], after)
                                          ELSE IF st.keys = <<>> THEN scenario
                                          ELSE [scenario EXCEPT
                                                   !.data = st.scenario[st.keys[1]].data]],
                         raised |-> FALSE] :
                  scenario \in {Scenario(assigned)}})

\* sweep_step with the Scenario built before the capacity is assigned
sweep_step_build_first(st, capacity) ==
    IF st.raised THEN st
    ELSE LET key == RoundGrid(capacity)
             after == AfterScenario([st.inputs EXCEPT !.pv_capacity = Num(key)])
         IN  Only({IF Raised(scenario)
                   THEN [st EXCEPT !.inputs = after, !.raised = TRUE]
                   ELSE [inputs |-> after,
                         keys |-> IF key \in DOMAIN st.scenario THEN st.keys
                                  ELSE Append(st.keys, key),
                         scenario |-> [k \in DOMAIN st.scenario \cup {key} |->
                                          IF k = key THEN scenario
                                          ELSE Alias(st.scenario[k], after)],
                         raised |-> FALSE] :
                  scenario \in {Scenario(st.inputs)}})

\* one pass of the loop of PVSizing.run_pv_sensitivity on the state
\* st = [inputs, keys, scenario, raised]: assign, build, store; a build that
\* raises leaves the loop with the capacity assigned and nothing stored
sweep_step(st, capacity) ==
    IF st.raised THEN st
    ELSE LET key == RoundGrid(capacity)
             assigned == [st.inputs EXCEPT !.pv_capacity = Num(key)]
             after == AfterScenario(assigned)
         IN  Only({IF Raised(scenario)
                   THEN [st EXCEPT !.inputs = after, !.raised = TRUE]
                   ELSE [inputs |-> after,
                         keys |-> IF key \in DOMAIN st.scenario THEN st.keys
                                  ELSE Append(st.keys, key),
                         scenario |-> [k \in DOMAIN st.scenario \cup {key} |->
                                          IF k = key THEN scenario
                                          ELSE Alias(st.scenario[k], after)],
                         raised |-> FALSE] :
                  scenario \in {Scenario(assigned)}})

\* PVSizing.run_pv_sensitivity: the loop over the first n grid values
RECURSIVE run_pv_sensitivity(_, _, _)
run_pv_sensitivity(inputs, pv_range, n) ==
    IF n = 0 THEN [inputs |-> inputs, keys |-> <<>>, scenario |-> <<>>,
                   raised |-> FALSE]
    ELSE Only({sweep_step(st, pv_range[n]) :
                  st \in {run_pv_sensitivity(inputs, pv_range, n - 1)}})

\* aggregate_data with the rows in the reverse of the dict's order
aggregate_data_reversed(keys, scenario) ==
    [i \in 1..Len(keys) |-> scenario[keys[Len(keys) + 1 - i]].data]

\* PVSizing.aggregate_data: the summary rows in the order of the dict
aggregate_data(keys, scenario) ==
    [i \in 1..Len(keys) |-> scenario[keys[i]].data]

\* idxmax_npv over the rows of positive NPV only, the last row when there
\* is none
idxmax_npv_positive(data) ==
    LET rows == {i \in 1..Len(data) : ~IsNaN(data[i].npv) /\ Lt(Zero, data[i].npv)}
    IN  IF rows = {} THEN data[Len(data)].index
        ELSE data[CHOOSE i \in rows :
                     \A j \in rows : /\ ~Lt(data[i].npv, data[j].npv)
                                     /\ (j < i => Lt(data[j].npv, data[i].npv))].index

\* Series.idxmax() of the 'npv' column: the index label of the first row
\* holding the largest value, NaN skipped
idxmax_npv(data) ==
    LET rows == {i \in 1..Len(data) : ~IsNaN(data[i].npv)}
        best == CHOOSE i \in rows :
                   \A j \in rows : /\ ~Lt(data[i].npv, data[j].npv)
                                   /\ (j < i => Lt(data[j].npv, data[i].npv))
    IN  data[best].index

\* PVSizing.highest_npv
highest_npv(data, scenario) == scenario[RoundInt(idxmax_npv(data))]

\* PVSizing(inputs, var_min, var_max, steps, log_scale): the object built and
\* the shared inputs as the constructor leaves them; no object when a build
\* of the sweep raised
PVSizing(inputs, var_min, var_max, steps, log_scale) ==
    LET pv_range == generate_pv_range(var_min, var_max, steps, log_scale)
    IN  Only({IF run.raised
              THEN [self |-> <<>>, inputs |-> run.inputs, raised |-> TRUE]
              ELSE
              [self |-> [pv_range |-> pv_range,
                         log_scale |-> log_scale,
                         keys |-> run.keys,
                         scenario |-> run.scenario,
                         data |-> aggregate_data(run.keys, run.scenario),
                         best_result |->
                             highest_npv(aggregate_data(run.keys, run.scenario),
                                         run.scenario),
                         inputs_on_return |-> run.inputs],
               inputs |-> run.inputs,
               raised |-> FALSE] :
              run \in {run_pv_sensitivity(inputs, pv_range, Len(pv_range))}})

(***************************************************************************)
(* Secondary sweep (sensitivity.py, class Sensitivity).                    *)
(***************************************************************************)
\* sensitivity_step without the division of a percentage by 100
sensitivity_step_percent(st, variable, v, pv) ==
    IF st.raised THEN st
    ELSE LET sensitivity_val == Round(v, 4)
             assigned == [st.inputs EXCEPT ![variable] = sensitivity_val]
         IN  Only({IF pv_sizing.raised
                   THEN [st EXCEPT !.inputs = pv_sizing.inputs, !.raised = TRUE]
                   ELSE [inputs |-> pv_sizing.inputs,
                         keys |-> IF sensitivity_val \in DOMAIN st.pv_sizing THEN st.keys
                                  ELSE Append(st.keys, sensitivity_val),
                         pv_sizing |-> [k \in DOMAIN st.pv_sizing \cup {sensitivity_val} |->
                                           IF k = sensitivity_val THEN pv_sizing.self
                                           ELSE st.pv_sizing[k]],
                         raised |-> FALSE] :
                  pv_sizing \in {PVSizing(assigned, pv.var_min, pv.var_max,
                                          pv.steps, pv.log_scale)}})

\* sensitivity_step on a clone of the inputs: the shared inputs stay as they
\* were
sensitivity_step_clone(st, variable, v, pv) ==
    IF st.raised THEN st
    ELSE LET rounded == Round(v, 4)
             sensitivity_val == IF UnitOf(variable) = "%" THEN Div(rounded, Num(100))
                                ELSE rounded
             clone == [st.inputs EXCEPT ![variable] = sensitivity_val]
         IN  Only({IF pv_sizing.raised
                   THEN [st EXCEPT !.raised = TRUE]
                   ELSE [inputs |-> st.inputs,
                         keys |-> IF sensitivity_val \in DOMAIN st.pv_sizing THEN st.keys
                                  ELSE Append(st.keys, sensitivity_val),
                         pv_sizing |-> [k \in DOMAIN st.pv_sizing \cup {sensitivity_val} |->
                                           IF k = sensitivity_val THEN pv_sizing.self
                                           ELSE st.pv_sizing[k]],
                         raised |-> FALSE] :
                  pv_sizing \in {PVSizing(clone, pv.var_min, pv.var_max,
                                          pv.steps, pv.log_scale)}})

\* one pass of the inner loop of Sensitivity.run_sensitivity on the state
\* st = [inputs, keys, pv_sizing, raised]: round, unformat, assign, sweep,
\* store; a sweep that raises leaves the loops with the value assigned
sensitivity_step(st, variable, v, pv) ==
    IF st.raised THEN st
    ELSE LET rounded == Round(v, 4)
             sensitivity_val == IF UnitOf(variable) = "%" THEN Div(rounded, Num(100))
                                ELSE rounded
             assigned == [st.inputs EXCEPT ![variable] = sensitivity_val]
         IN  Only({IF pv_sizing.raised
                   THEN [st EXCEPT !.inputs = pv_sizing.inputs, !.raised = TRUE]
                   ELSE [inputs |-> pv_sizing.inputs,
                         keys |-> IF sensitivity_val \in DOMAIN st.pv_sizing THEN st.keys
                                  ELSE Append(st.keys, sensitivity_val),
                         pv_sizing |-> [k \in DOMAIN st.pv_sizing \cup {sensitivity_val} |->
                                           IF k = sensitivity_val THEN pv_sizing.self
                                           ELSE st.pv_sizing[k]],
                         raised |-> FALSE] :
                  pv_sizing \in {PVSizing(assigned, pv.var_min, pv.var_max,
                                          pv.steps, pv.log_scale)}})

\* Sensitivity.run_sensitivity: the loops; a variable that names no field
\* of the inputs leaves the result empty
RECURSIVE run_sensitivity(_, _, _, _, _)
run_sensitivity(inputs, variable, variable_range, n, pv) ==
    IF n = 0 \/ variable \notin InputFields
    THEN [inputs |-> inputs, keys |-> <<>>, pv_sizing |-> <<>>, raised |-> FALSE]
    ELSE Only({sensitivity_step(st, variable, variable_range[n], pv) :
                  st \in {run_sensitivity(inputs, variable, variable_range, n - 1, pv)}})

\* Sensitivity(inputs, variable, var_min, var_max, steps, pv_...): the object
\* built and the shared inputs as the constructor leaves them; no object when
\* a build raised
Sensitivity(inputs, variable, var_min, var_max, steps, pv) ==
    LET variable_range == linspace(var_min, var_max, steps)
    IN  Only({IF run.raised
              THEN [self |-> <<>>, inputs |-> run.inputs, raised |-> TRUE]
              ELSE
              [self |-> [variable |-> variable,
                         variable_range |-> variable_range,
                         keys |-> run.keys,
                         pv_sizing |-> run.pv_sizing],
               inputs |-> run.inputs,
               raised |-> FALSE] :
              run \in {run_sensitivity(inputs, variable, variable_range,
                                       Len(variable_range), pv)}})

(***************************************************************************)
(* Objective adapter (optimiser.py, class ScipyOptimiser).                 *)
(***************************************************************************)
\* the names a Scenario object answers to: the Inputs fields, the methods of
\* Inputs and Scenario, and the attributes Scenario.__init__ sets
ScenarioAttributes ==
    InputFields
    \cup {"__post_init__", "_convert_to_unit_variables", "_format_file_inputs",
          "to_excel", "_calc_annual_energy_balance",
          "_calc_energy_balance_summary", "_calc_cashflow",
          "_calc_discounted_cashflow", "_calc_LCOE", "_calc_summary",
          "format_summary"}
    \cup {"energy_balance", "energy_balance_summary", "cashflow",
          "discounted_cashflow", "data"}

ValueError == <<"ValueError">>

AttributeError == <<"AttributeError">>

\* the attribute the first match statement assigns, <<>> for case _
MatchVariable(variable) ==
    CASE variable = "Study Period" -> <<"study_period">>
      [] variable = "Discount Rate" -> <<"discount_rate">>
      [] variable = "PV Capacity" -> <<"pv_capacity">>
      [] variable = "Module Degradation" -> <<"pv_degradation">>
      [] variable = "CAPEX" -> <<"capex">>
      [] variable = "OPEX" -> <<"opex">>
      [] variable = "Import Tariff" -> <<"import_tariff">>
      [] variable = "Export Tariff" -> <<"export_tariff">>
      [] OTHER -> <<>>

\* ScipyOptimiser.optimising_function_wrapper(x) on self = [scenario,
\* objective, optimisation, variable, to_value]: the scenario as the call
\* leaves it and the value returned, <<"return", v>>, or the exception raised
optimising_function_wrapper(self, x) ==
    LET field == MatchVariable(self.variable)
        assigned == [self.scenario EXCEPT !.inputs[field[1]] = x[1]]
    IN  IF field = <<>>
        THEN [scenario |-> self.scenario, outcome |-> ValueError]
        ELSE IF "update_scenario" \notin ScenarioAttributes
        THEN [scenario |-> assigned, outcome |-> AttributeError]
        ELSE IF self.optimisation \notin {"Min", "Max", "Goal-Seek"}
        THEN [scenario |-> assigned, outcome |-> ValueError]
        ELSE IF "summary" \notin ScenarioAttributes
        THEN [scenario |-> assigned, outcome |-> AttributeError]
        ELSE LET m == assigned.data[self.objective]
             IN  [scenario |-> assigned,
                  outcome |->
                     CASE self.optimisation = "Min" -> <<"return", m>>
                       [] self.optimisation = "Max" -> <<"return", Mul(m, Num(-1))>>
                       [] self.optimisation = "Goal-Seek" ->
                            <<"return", Sub(m, self.to_value)>>]

(***************************************************************************)
(* The Streamlit session.  Every run of the script (app.py, main) runs     *)
(* scenario_page() and then sensitivity_page(), whichever button was       *)
(* pressed; an action is one run.                                          *)
(***************************************************************************)
VARIABLES
    form,           \* values of the scenario form at its last submit
    session_state,  \* inputs, scenario, pv_sizing, sensitivity: <<>> while
                    \* the key is absent, <<v>> once it is set; a scenario is
                    \* held by its position in cache
    cache,          \* st.cache_resource of create_scenario: the Scenario
                    \* objects made so far, each under the inputs it was made of
    count,          \* runs of each handler so far
    exception,      \* the exception the last run of the script ended with,
                    \* <<>> when it ran to its end
    call,           \* a call of the library made outside the pages: the
                    \* operation, its arguments and, once made, its outcome
    payback         \* the payback calculator on its own: balance and result

vars == <<form, session_state, cache, count, exception, call, payback>>

MaxSaves == 1
MaxViews == 1
MaxSweeps == 1
MaxSensitivities == 1
MaxSweepSteps == 3
MaxSensitivitySteps == 2

\* min_value of the two 'Number of points' widgets
MinSweepSteps == 3
MinSensitivitySteps == 1

Has(key) == session_state[key] # <<>>
Get(key) == session_state[key][1]

\* the submitted scenario forms considered: the uploaded files by hour and
\* the widgets' values, percentages as typed
BaseForm ==
    [load_file |-> [h \in Hours |-> IF h % 2 = 1 THEN Num(1) ELSE Num(3)],
     ref_yield_file |-> [h \in Hours |-> IF h % 2 = 1 THEN Num(8) ELSE Num(4)],
     ref_pv_capacity |-> Num(2), postproc_losses |-> Num(50),
     currency |-> "USD", study_period |-> Num(MaxStudyPeriod),
     discount_rate |-> Num(25), pv_capacity |-> Num(1),
     degradation_rate |-> Num(0), devex |-> Num(0), capex |-> Num(3),
     opex |-> Num(1), opex_increase |-> Num(0), loan |-> Num(0),
     loan_period |-> Num(10), loan_rate |-> Num(0),
     import_tariff |-> Num(2), export_tariff |-> Num(1),
     import_increase |-> Num(0), export_increase |-> Num(0)]

FormCases ==
    { BaseForm,
      [BaseForm EXCEPT !.loan = Num(50), !.loan_period = Num(MaxStudyPeriod + 1),
                       !.loan_rate = Num(100), !.degradation_rate = Num(50),
                       !.opex_increase = Num(100), !.import_increase = Num(100),
                       !.pv_capacity = Num(2)],
      [BaseForm EXCEPT !.study_period = Num(1), !.capex = Num(20),
                       !.ref_yield_file =
                           [h \in Hours |-> IF h % 2 = 1 THEN Num(8) ELSE Num(-4)]],
      [BaseForm EXCEPT !.load_file = [h \in Hours |-> Zero]],
      [BaseForm EXCEPT !.loan = Num(50), !.loan_period = Num(1),
                       !.degradation_rate = Num(100)],
      [BaseForm EXCEPT !.loan = Num(50), !.loan_period = Num(0)],
      [BaseForm EXCEPT !.loan = Num(50), !.loan_period = Num(MaxStudyPeriod + 1)] }

\* the values of the capacity-sweep widgets considered
SweepForms ==
    [var_min : {Num(0), Num(1)}, var_max : {Num(3)},
     steps : MinSweepSteps..MaxSweepSteps, log_scale : BOOLEAN]

\* the values the capacity-sweep widgets hold when a secondary sweep is run
SensitivitySweepForms ==
    {w \in SweepForms : w.var_min = One /\ ~w.log_scale}

\* the values of the secondary-sweep widgets considered
SensitivityForms ==
    [target : {"discount_rate", "capex"}, var_min : {Frac(2500004, 100000)},
     var_max : {Num(50)}, steps : MinSensitivitySteps..MaxSensitivitySteps]

\* Inputs(...) as scenario_page builds it from the form
Inputs(f) ==
    InputsInit(
        [load |-> f.load_file,
         ref_yield |-> [E_Grid |-> f.ref_yield_file],
         ref_capacity |-> f.ref_pv_capacity,
         postproc_losses |-> Div(f.postproc_losses, Num(100)),
         ref_specific_yield |-> <<>>,
         study_period |-> f.study_period,
         discount_rate |-> Div(f.discount_rate, Num(100)),
         pv_capacity |-> f.pv_capacity,
         pv_degradation |-> Div(f.degradation_rate, Num(100)),
         currency |-> f.currency,
         devex |-> f.devex,
         capex |-> f.capex,
         opex |-> f.opex,
         opex_increase |-> Div(f.opex_increase, Num(100)),
         loan |-> Div(f.loan, Num(100)),
         loan_period |-> f.loan_period,
         loan_rate |-> Div(f.loan_rate, Num(100)),
         import_tariff |-> f.import_tariff,
         export_tariff |-> f.export_tariff,
         import_increase |-> Div(f.import_increase, Num(100)),
         export_increase |-> Div(f.export_increase, Num(100))])

\* create_scenario under st.cache_resource: the object cached for equal
\* inputs is handed back as it is, otherwise a Scenario is built, exported
\* and cached; a build that raises caches nothing
create_scenario(c, inputs) ==
    IF \E i \in DOMAIN c : c[i].key = inputs
    THEN [cache |-> c, address |-> CHOOSE i \in DOMAIN c : c[i].key = inputs,
          inputs |-> inputs, raised |-> FALSE]
    ELSE Only({IF Raised(scenario)
               THEN [cache |-> c, address |-> 0,
                     inputs |-> AfterScenario(inputs), raised |-> TRUE]
               ELSE [cache |-> Append(c, [key |-> inputs,
                                          value |-> create_excel_file(inputs, scenario)]),
                     address |-> Len(c) + 1,
                     inputs |-> AfterScenario(inputs), raised |-> FALSE] :
               scenario \in {Scenario(inputs)}})

\* the cache after display_scenario() of the session's scenario, if any
Displayed(c, ss) ==
    IF ss.scenario = <<>> THEN c
    ELSE [c EXCEPT ![ss.scenario[1]].value = display_scenario(@)]

Init ==
    /\ form = <<>>
    /\ session_state = [inputs |-> <<>>, scenario |-> <<>>,
                        pv_sizing |-> <<>>, sensitivity |-> <<>>]
    /\ cache = <<>>
    /\ count = [save |-> 0, view |-> 0, pv_sizing |-> 0, sensitivity |-> 0]
    /\ exception = <<>>
    /\ call = <<>>
    /\ payback = <<>>

\* a run with 'Save & View Results' pressed: scenario_page displays the
\* scenario it finds, builds the inputs and the scenario and displays it;
\* sensitivity_page then only redraws its charts
SaveAndView(f) ==
    /\ count.save < MaxSaves
    /\ \E made \in {create_scenario(Displayed(cache, session_state), Inputs(f))} :
           IF made.raised
           THEN /\ cache' = made.cache
                /\ session_state' = [session_state EXCEPT !.inputs = <<made.inputs>>]
                /\ exception' = LinAlgError
           ELSE /\ cache' = [made.cache EXCEPT
                                ![made.address].value = display_scenario(@)]
                /\ session_state' = [session_state EXCEPT
                                        !.inputs = <<made.inputs>>,
                                        !.scenario = <<made.address>>]
                /\ exception' = <<>>
    /\ form' = f
    /\ count' = [count EXCEPT !.save = @ + 1]
    /\ UNCHANGED <<call, payback>>

\* a run with no form submitted (a download button pressed)
ViewScenario ==
    /\ count.view < MaxViews
    /\ cache' = Displayed(cache, session_state)
    /\ count' = [count EXCEPT !.view = @ + 1]
    /\ exception' = <<>>
    /\ UNCHANGED <<form, session_state, call, payback>>

\* a run with 'Run PV capacity sensitivity' pressed: scenario_page displays
\* the scenario it finds, then sensitivity_page runs the sweep
RunPVSizing(w) ==
    /\ count.pv_sizing < MaxSweeps
    /\ Has("inputs")
    /\ w.log_scale => Lt(w.var_min, w.var_max)
    /\ \E pv_sizing \in {PVSizing(Get("inputs"), w.var_min, w.var_max,
                                   w.steps, w.log_scale)} :
         IF pv_sizing.raised
         THEN /\ session_state' = [session_state EXCEPT
                                      !.inputs = <<pv_sizing.inputs>>]
              /\ exception' = LinAlgError
         ELSE LET best == create_excel_file(pv_sizing.inputs,
                                            pv_sizing.self.best_result)
              IN  /\ session_state' =
                        [session_state EXCEPT
                            !.pv_sizing = <<pv_sizing.self>>,
                            !.inputs = <<[pv_sizing.inputs EXCEPT
                                             !.pv_capacity = best.inputs.pv_capacity]>>]
                  /\ exception' = <<>>
    /\ cache' = Displayed(cache, session_state)
    /\ count' = [count EXCEPT !.pv_sizing = @ + 1]
    /\ UNCHANGED <<form, call, payback>>

\* a run with 'Run sensitivity' pressed: scenario_page displays the scenario
\* it finds, then sensitivity_page runs the secondary sweep
RunSensitivity(w, s) ==
    /\ count.sensitivity < MaxSensitivities
    /\ Has("inputs")
    /\ w.log_scale => Lt(w.var_min, w.var_max)
    /\ \E sensitivity \in {Sensitivity(Get("inputs"), s.target, s.var_min,
                                        s.var_max, s.steps, w)} :
           IF sensitivity.raised
           THEN /\ session_state' = [session_state EXCEPT
                                        !.inputs = <<sensitivity.inputs>>]
                /\ exception' = LinAlgError
           ELSE /\ session_state' = [session_state EXCEPT
                                        !.sensitivity = <<sensitivity.self>>,
                                        !.inputs = <<sensitivity.inputs>>]
                /\ exception' = <<>>
    /\ cache' = Displayed(cache, session_state)
    /\ count' = [count EXCEPT !.sensitivity = @ + 1]
    /\ UNCHANGED <<form, call, payback>>

Next ==
    \/ \E f \in FormCases : SaveAndView(f)
    \/ ViewScenario
    \/ \E w \in SweepForms : RunPVSizing(w)
    \/ \E w \in SensitivitySweepForms, s \in SensitivityForms :
          RunSensitivity(w, s)

Spec == Init /\ [][Next]_vars

(***************************************************************************)
(* The payback calculator applied to synthetic cash balances: linear,      *)
(* strictly increasing, zero at an integer year k of the study period N.   *)
(***************************************************************************)
MaxPaybackPeriod == 25

PaybackSlopes == {3, 100}

PaybackCases ==
    {c \in [N : 1..MaxPaybackPeriod, k : 1..MaxPaybackPeriod, slope : PaybackSlopes] :
        c.k <= c.N}

\* the cash-balance column of a case, years 0..N
LinearBalance(c) == [y \in 0..c.N |-> Num(c.slope * (y - c.k))]

InitPayback ==
    /\ form = <<>>
    /\ session_state = [inputs |-> <<>>, scenario |-> <<>>,
                        pv_sizing |-> <<>>, sensitivity |-> <<>>]
    /\ cache = <<>>
    /\ count = [save |-> 0, view |-> 0, pv_sizing |-> 0, sensitivity |-> 0]
    /\ exception = <<>>
    /\ call = <<>>
    /\ payback \in {[case |-> c, period |-> <<>>] : c \in PaybackCases}

\* lines 353-357 of Scenario._calc_summary on the case's cash balance
Payback ==
    /\ payback.period = <<>>
    /\ payback' = [payback EXCEPT
                      !.period = <<pay_back_period(LinearBalance(payback.case),
                                                   payback.case.N)>>]
    /\ UNCHANGED <<form, session_state, cache, count, exception, call>>

NextPayback == Payback

SpecPayback == InitPayback /\ [][NextPayback]_vars

(***************************************************************************)
(* The library called directly: Sensitivity(...) with any variable name    *)
(* and the objective adapter with any variable name and strategy tag.      *)
(***************************************************************************)
\* variable names handed to Sensitivity: two fields of Inputs, a field's
\* title and a name of no field
SensitivityVariables == {"discount_rate", "capex", "Discount Rate (%)", "pv_size"}

SensitivityCalls ==
    {[op |-> "Sensitivity", inputs |-> Inputs(f), variable |-> v, sweep |-> s,
      pv |-> w, outcome |-> <<>>] :
        f \in FormCases, v \in SensitivityVariables,
        s \in {[var_min |-> t.var_min, var_max |-> t.var_max, steps |-> t.steps] :
                  t \in SensitivityForms},
        w \in SensitivitySweepForms
               \cup {[var_min |-> One, var_max |-> Frac(7, 2),
                      steps |-> MinSweepSteps, log_scale |-> FALSE]}}

\* variable names and strategy tags handed to the adapter: the eight and the
\* three the match statements name, and others
AdapterVariables ==
    {"Study Period", "Discount Rate", "PV Capacity", "Module Degradation",
     "CAPEX", "OPEX", "Import Tariff", "Export Tariff", "capex", "Loan"}

AdapterStrategies == {"Min", "Max", "Goal-Seek", "Goal-seek"}

AdapterCalls ==
    {[op |-> "optimising_function_wrapper",
      self |-> [scenario |-> Scenario(Inputs(BaseForm)), objective |-> "npv",
                optimisation |-> o, variable |-> v, to_value |-> Num(5)],
      x |-> <<e>>, outcome |-> <<>>] :
        v \in AdapterVariables, o \in AdapterStrategies, e \in {Num(2), Num(3)}}

\* bounds handed to generate_pv_range, with two grid points or more
GridCalls ==
    {c \in [op : {"generate_pv_range"},
            var_min : {Num(0), Num(1), Frac(5, 2)},
            var_max : {Num(3), Frac(7, 2), Num(100)},
            steps : 2..MaxSweepSteps, log_scale : BOOLEAN, outcome : {<<>>}] :
        Lt(c.var_min, c.var_max)}

\* study periods of the cash balances handed to the payback calculator
MaxBalanceYears == 3

\* the cash balances of the years 1..N, in any order of sign
BalanceValues == {-3, -1, 0, 1, 3}

\* cash-balance columns of the years 0..N, monotonic or not, after an
\* investment of 3 in year 0
PaybackCalls ==
    {[op |-> "pay_back_period", study_period |-> Len(s),
      balance |-> [y \in 0..Len(s) |-> IF y = 0 THEN Num(-3) ELSE Num(s[y])],
      outcome |-> <<>>] :
        s \in UNION {[1..N -> BalanceValues] : N \in 1..MaxBalanceYears}}

InitCalls ==
    /\ form = <<>>
    /\ session_state = [inputs |-> <<>>, scenario |-> <<>>,
                        pv_sizing |-> <<>>, sensitivity |-> <<>>]
    /\ cache = <<>>
    /\ count = [save |-> 0, view |-> 0, pv_sizing |-> 0, sensitivity |-> 0]
    /\ exception = <<>>
    /\ call \in SensitivityCalls \cup AdapterCalls \cup GridCalls \cup PaybackCalls
    /\ payback = <<>>

\* Sensitivity(inputs, variable, var_min, var_max, steps, pv_...) called
CallSensitivity ==
    /\ call.op = "Sensitivity"
    /\ call.outcome = <<>>
    /\ call' = [call EXCEPT !.outcome =
                   <<Sensitivity(call.inputs, call.variable, call.sweep.var_min,
                                 call.sweep.var_max, call.sweep.steps, call.pv)>>]
    /\ UNCHANGED <<form, session_state, cache, count, exception, payback>>

\* optimising_function_wrapper(x) called
CallAdapter ==
    /\ call.op = "optimising_function_wrapper"
    /\ call.outcome = <<>>
    /\ call' = [call EXCEPT !.outcome =
                   <<optimising_function_wrapper(call.self, call.x)>>]
    /\ UNCHANGED <<form, session_state, cache, count, exception, payback>>

\* generate_pv_range(var_min, var_max, steps, log_scale) called
CallGrid ==
    /\ call.op = "generate_pv_range"
    /\ call.outcome = <<>>
    /\ call' = [call EXCEPT !.outcome =
                   <<generate_pv_range(call.var_min, call.var_max, call.steps,
                                       call.log_scale)>>]
    /\ UNCHANGED <<form, session_state, cache, count, exception, payback>>

\* lines 353-357 of Scenario._calc_summary on a cash-balance column
CallPayback ==
    /\ call.op = "pay_back_period"
    /\ call.outcome = <<>>
    /\ call' = [call EXCEPT !.outcome =
                   <<pay_back_period(call.balance, call.study_period)>>]
    /\ UNCHANGED <<form, session_state, cache, count, exception, payback>>

NextCalls == CallSensitivity \/ CallAdapter \/ CallGrid \/ CallPayback

SpecCalls == InitCalls /\ [][NextCalls]_vars

(***************************************************************************)
(* Properties.                                                             *)
(***************************************************************************)
\* the capacity sweeps held in the session, the secondary sweep's included
SweepObjects ==
    (IF Has("pv_sizing") THEN {Get("pv_sizing")} ELSE {})
    \cup (IF Has("sensitivity")
          THEN {Get("sensitivity").pv_sizing[k] : k \in DOMAIN Get("sensitivity").pv_sizing}
          ELSE {})

\* every Scenario object held in the session
ScenarioObjects ==
    {cache[i].value : i \in DOMAIN cache}
    \cup UNION {{p.scenario[k] : k \in DOMAIN p.scenario} : p \in SweepObjects}

\* C1: in every year and hour of every Scenario's energy balance the
\* self-consumed PV energy is min(load, PV total), the grid import is
\* max(load - PV total, 0), the grid export is max(PV total - load, 0), load
\* is self-consumption plus import, PV total is self-consumption plus export,
\* and import and export are never both non-zero
C1_EnergyBalance ==
    \A s \in ScenarioObjects :
        /\ DOMAIN s.energy_balance = 1..RoundInt(s.inputs.study_period)
        /\ \A year \in DOMAIN s.energy_balance : \A h \in Hours :
             LET e == s.energy_balance[year]
                 load == e.enLoad[h]
                 total == e.enPV_total[h]
             IN  /\ e.enPV_self_cons[h] = MinR(load, total)
                 /\ e.enGrid_import[h] = MaxR(Sub(load, total), Zero)
                 /\ e.enGrid_export[h] = MaxR(Sub(total, load), Zero)
                 /\ load = Add(e.enPV_self_cons[h], e.enGrid_import[h])
                 /\ total = Add(e.enPV_self_cons[h], e.enGrid_export[h])
                 /\ (e.enGrid_import[h] = Zero \/ e.enGrid_export[h] = Zero)

\* a Scenario whose second year has an hour of import and an hour of export
C1_Witness ==
    \E s \in ScenarioObjects :
        /\ 2 \in DOMAIN s.energy_balance
        /\ \E h1, h2 \in Hours :
              /\ Lt(Zero, s.energy_balance[2].enGrid_import[h1])
              /\ Lt(Zero, s.energy_balance[2].enGrid_export[h2])

\* the sum of col[0..hi], NaN not skipped
RECURSIVE PlainSum(_, _)
PlainSum(col, hi) ==
    IF hi = 0 THEN col[0] ELSE Add(PlainSum(col, hi - 1), col[hi])

\* C2: the summary NPV of every Scenario is the sum of the 'cashflow' column
\* of its discounted-cashflow table over the years 0..study period (the
\* column's sum as pandas takes it, which is the plain sum wherever the
\* column has no undefined entry), and the discounted cashflow of year 0 is
\* the undiscounted cashflow of year 0
C2_NPV ==
    \A s \in ScenarioObjects :
        LET N == RoundInt(s.inputs.study_period)
            col == Column(s.discounted_cashflow, "cashflow")
        IN  /\ DOMAIN s.discounted_cashflow = 0..N
            /\ s.data.npv = ColSum(col, 0, N)
            /\ (\A y \in 0..N : ~IsNaN(col[y])) => s.data.npv = PlainSum(col, N)
            /\ s.discounted_cashflow[0].cashflow = s.cashflow[0].cashflow

\* a Scenario of two years or more with a positive discount rate, every
\* yearly cashflow defined and year 1 actually discounted
C2_Witness ==
    \E s \in ScenarioObjects :
        /\ RoundInt(s.inputs.study_period) >= 2
        /\ Lt(Zero, s.inputs.discount_rate)
        /\ \A y \in DOMAIN s.discounted_cashflow :
              ~IsNaN(s.discounted_cashflow[y].cashflow)
        /\ s.discounted_cashflow[1].cashflow # s.cashflow[1].cashflow
        /\ s.cashflow[0].cashflow # Zero

\* the three synthetic summary rows of the selection example
ExampleRows ==
    <<[index |-> Num(1000), npv |-> Num(100)],
      [index |-> Num(2000), npv |-> Num(500)],
      [index |-> Num(3000), npv |-> Num(-50)]>>

\* C3: the best result of every capacity sweep is one of the Scenarios of
\* its scenarios map and its NPV is at least the NPV of every row of the
\* aggregate table, whatever the signs; NPVs 100, 500, -50 at capacities
\* 1000, 2000, 3000 select 2000
C3_Best ==
    /\ \A p \in SweepObjects :
          /\ \E k \in DOMAIN p.scenario : p.scenario[k] = p.best_result
          /\ \A i \in DOMAIN p.data :
                /\ ~IsNaN(p.data[i].npv)
                /\ Le(p.data[i].npv, p.best_result.data.npv)
    /\ idxmax_npv(ExampleRows) = Num(2000)

\* a sweep of three candidates whose NPVs are all negative and all different
C3_Witness ==
    \E p \in SweepObjects :
        /\ Len(p.data) >= 3
        /\ \A i \in DOMAIN p.data : Lt(p.data[i].npv, Zero)
        /\ \A i, j \in DOMAIN p.data : i # j => p.data[i].npv # p.data[j].npv

\* C4: in every capacity sweep the keys are the candidates rounded to
\* integers, the Scenario under key c has pvCapacity c and tables computed
\* for that capacity, and the aggregate row indexed c is its summary row,
\* also for the Scenarios stored before the last assignment to the shared
\* inputs
C4_Keyed ==
    \A p \in SweepObjects :
        /\ DOMAIN p.scenario = {RoundGrid(p.pv_range[i]) : i \in DOMAIN p.pv_range}
        /\ DOMAIN p.scenario = {p.keys[i] : i \in DOMAIN p.keys}
        /\ Len(p.data) = Len(p.keys)
        /\ \A i \in DOMAIN p.keys :
              LET c == p.keys[i]
                  s == p.scenario[c]
              IN  /\ s.inputs.pv_capacity = Num(c)
                  /\ s.energy_balance = calc_annual_energy_balance(s.inputs)
                  /\ s.data.capex = Mul(s.inputs.capex, Num(c))
                  /\ p.data[i] = s.data
                  /\ p.data[i].index = Num(c)

\* a sweep with a candidate that is no integer, three keys, and the shared
\* inputs left at a capacity other than the first key's
C4_Witness ==
    \E p \in SweepObjects :
        /\ Len(p.keys) >= 3
        /\ \E i \in DOMAIN p.pv_range :
              p.pv_range[i].root = 1 /\ p.pv_range[i].radicand[2] # 1
        /\ p.inputs_on_return.pv_capacity # Num(p.keys[1])
        /\ p.scenario[p.keys[1]].inputs.pv_capacity = Num(p.keys[1])

\* C5 as stated: a capacity sweep leaves the inputs it was given as they
\* were, pvCapacity included
C5_InputsKept ==
    [][count'.pv_sizing = count.pv_sizing + 1 /\ exception' = <<>>
          => session_state'.inputs = session_state.inputs]_vars

\* C5, amended: the sweep writes every candidate into the one shared inputs
\* object, so when PVSizing returns pvCapacity is the last candidate, rounded,
\* and when run_pv_sizing_sensitivity returns it is the best result's
\* capacity; every other field has the value it had before the call
C5_SharedInputs ==
    [][count'.pv_sizing = count.pv_sizing + 1 /\ exception' = <<>>
          => LET before == session_state.inputs[1]
                 after == session_state'.inputs[1]
                 p == session_state'.pv_sizing[1]
             IN  /\ \A f \in InputFields \ {"pv_capacity"} :
                        after[f] = before[f] /\ p.inputs_on_return[f] = before[f]
                 /\ p.inputs_on_return.pv_capacity =
                        Num(RoundGrid(p.pv_range[Len(p.pv_range)]))
                 /\ after.pv_capacity = p.best_result.inputs.pv_capacity]_vars

\* after a sweep, the inputs hold the best capacity, which is neither the
\* capacity of the form nor the last candidate
C5_Witness ==
    /\ count.pv_sizing = 1 /\ count.sensitivity = 0
    /\ Get("inputs").pv_capacity = Get("pv_sizing").best_result.inputs.pv_capacity
    /\ Get("inputs").pv_capacity # Inputs(form).pv_capacity
    /\ Get("inputs").pv_capacity # Get("pv_sizing").inputs_on_return.pv_capacity

\* C6 as stated: every Scenario made by create_scenario holds the tables
\* computed at its build, whatever was displayed or exported since
C6_TablesKept ==
    \A i \in DOMAIN cache : cache[i].value = Scenario(cache[i].key)

\* C7: the builds leave the inputs as they were: after 'Save & View' the
\* session's inputs are the Inputs made from the form, and after the builds
\* of a capacity sweep the inputs differ in pvCapacity only from the Inputs
\* a 'Save & View' made
C7_BuildPure ==
    /\ (Has("inputs") /\ count.pv_sizing = 0 /\ count.sensitivity = 0)
          => Get("inputs") = Inputs(form)
    /\ (Has("pv_sizing") /\ count.sensitivity = 0)
          => \E i \in DOMAIN cache :
                \A f \in InputFields \ {"pv_capacity"} :
                    Get("pv_sizing").inputs_on_return[f] = cache[i].key[f]

\* inputs with their specific yield, of a capacity other than 1 kWp, after
\* the build of 'Save & View' and the builds of a sweep
C7_Witness ==
    /\ Has("scenario") /\ Has("pv_sizing") /\ count.sensitivity = 0
    /\ Get("inputs").ref_specific_yield # <<>>
    /\ Inputs(form).pv_capacity # One
    /\ cache[Get("scenario")].key = Inputs(form)
    /\ Len(Get("pv_sizing").keys) >= 2

\* the builds the session holds the result of, each with the inputs it was
\* given
BuildEvents ==
    {[given |-> cache[i].key, built |-> cache[i].value] : i \in DOMAIN cache}
    \cup UNION {{[given |-> [p.inputs_on_return EXCEPT !.pv_capacity = Num(k)],
                  built |-> p.scenario[k]] : k \in DOMAIN p.scenario} :
                p \in SweepObjects}

KeyOf(variable, v) ==
    IF UnitOf(variable) = "%" THEN Div(Round(v, 4), Num(100)) ELSE Round(v, 4)

\* C9: the secondary sweep's keys are the candidates rounded to 4 decimals,
\* divided by 100 for a '%' field; every Scenario of the capacity sweep under
\* key k holds k in the secondary field and tables computed with it; a '%'
\* field swept within 0..100 holds values within 0..1
C9_Keyed ==
    Has("sensitivity") =>
        LET S == Get("sensitivity")
        IN  /\ DOMAIN S.pv_sizing =
                  {KeyOf(S.variable, S.variable_range[i]) : i \in DOMAIN S.variable_range}
            /\ \A k \in DOMAIN S.pv_sizing : \A c \in DOMAIN S.pv_sizing[k].scenario :
                  LET s == S.pv_sizing[k].scenario[c]
                  IN  /\ s.inputs[S.variable] = k
                      /\ s.cashflow[0].cashflow = year0_row(s.inputs).cashflow
                      /\ s.discounted_cashflow =
                            calc_discounted_cashflow(s.inputs, s.cashflow)
            /\ (/\ UnitOf(S.variable) = "%"
                /\ \A i \in DOMAIN S.variable_range :
                      Le(Zero, S.variable_range[i]) /\ Le(S.variable_range[i], Num(100)))
                  => \A k \in DOMAIN S.pv_sizing : Le(Zero, k) /\ Le(k, One)

\* a secondary sweep of the discount rate over 25.00004 % and 50 %: keys
\* 0.25 and 0.5
C9_Witness ==
    /\ Has("sensitivity")
    /\ Get("sensitivity").variable = "discount_rate"
    /\ Get("sensitivity").variable_range[1] = Frac(2500004, 100000)
    /\ DOMAIN Get("sensitivity").pv_sizing = {Frac(1, 4), Frac(1, 2)}

\* C10: for a linear, strictly increasing cash balance that is zero at the
\* integer year k, 1 <= k <= study period, the payback period is within 0.05
\* of k; so the balance from -1000 in steps of 100 over 25 years gives 10
C10_Payback ==
    payback.period # <<>> =>
        Le(AbsR(Sub(payback.period[1], Num(payback.case.k))), Frac(1, 20))

\* the example: -1000 rising by 100 a year, 25 years, payback 10
C10_Witness ==
    /\ payback.case = [N |-> 25, k |-> 10, slope |-> 100]
    /\ payback.period = <<Num(10)>>

\* C11: in a linear-scale capacity sweep whose generated grid is a strictly
\* increasing sequence of integers, the aggregate table has one row per grid
\* value, its capacity index equals the grid element by element, and the
\* index is strictly increasing
C11_IndexIsGrid ==
    \A p \in SweepObjects :
        (/\ ~p.log_scale
         /\ \A i \in DOMAIN p.pv_range : p.pv_range[i].radicand[2] = 1
         /\ \A i \in DOMAIN p.pv_range :
               i > 1 => Lt(p.pv_range[i - 1].radicand, p.pv_range[i].radicand))
        => /\ Len(p.data) = Len(p.pv_range)
           /\ \A i \in DOMAIN p.data : p.data[i].index = p.pv_range[i].radicand
           /\ \A i \in DOMAIN p.data :
                 i > 1 => Lt(p.data[i - 1].index, p.data[i].index)

\* a linear sweep over the grid 1, 2, 3 with its three rows
C11_Witness ==
    \E p \in SweepObjects :
        /\ ~p.log_scale
        /\ [i \in DOMAIN p.pv_range |-> p.pv_range[i].radicand] = <<Num(1), Num(2), Num(3)>>
        /\ Len(p.data) = 3

\* C12 as stated: no Scenario is ever returned for inputs whose total load
\* or total PV energy is zero, and every returned Scenario has a finite
\* self-consumption, utilisation, LCOE and BLCOE
C12_DegenerateRaises ==
    \A s \in ScenarioObjects :
        /\ s.data.load # Zero
        /\ s.data.energy_pv_total # Zero
        /\ IsFinite(s.data.pv_self_cons)
        /\ IsFinite(s.data.pv_utilisation)
        /\ IsFinite(s.data.lcoe)
        /\ IsFinite(s.data.blcoe)

\* C13 as stated: Sensitivity called with a variable that names no field of
\* the inputs ends with an exception, it never returns a result
C13_UnknownVariableRaises ==
    (/\ call # <<>>
     /\ call.op = "Sensitivity"
     /\ call.outcome # <<>>
     /\ call.variable \notin InputFields)
    => call.outcome[1].raised

\* C14 as stated: for a variable and a strategy the adapter supports, the
\* call returns a value: the metric for 'Min', its negative for 'Max', the
\* metric less the goal for 'Goal-Seek'
C14_AdapterReturns ==
    (/\ call # <<>>
     /\ call.op = "optimising_function_wrapper"
     /\ call.outcome # <<>>
     /\ MatchVariable(call.self.variable) # <<>>
     /\ call.self.optimisation \in {"Min", "Max", "Goal-Seek"})
    => call.outcome[1].outcome[1] = "return"

\* C15 as stated: for a variable or a strategy the adapter does not support
\* the call raises ValueError
C15_AdapterRejects ==
    (/\ call # <<>>
     /\ call.op = "optimising_function_wrapper"
     /\ call.outcome # <<>>
     /\ \/ MatchVariable(call.self.variable) = <<>>
        \/ call.self.optimisation \notin {"Min", "Max", "Goal-Seek"})
    => call.outcome[1].outcome = ValueError

C17_SpecificYield ==
    Has("inputs") =>
        LET inputs == Get("inputs")
            loss == Div(form.postproc_losses, Num(100))
        IN  /\ \A h \in Hours :
                  inputs.ref_specific_yield[h] =
                      Div(Mul(MaxR(form.ref_yield_file[h], Zero), Sub(One, loss)),
                          form.ref_pv_capacity)
            /\ (Le(loss, One) /\ Lt(Zero, form.ref_pv_capacity))
                  => \A h \in Hours : Le(Zero, inputs.ref_specific_yield[h])

\* inputs made from a reference yield with a negative hour: that hour's
\* specific yield is zero, another hour's is positive
C17_Witness ==
    /\ Has("inputs")
    /\ \E h \in Hours : /\ Lt(form.ref_yield_file[h], Zero)
                         /\ Get("inputs").ref_specific_yield[h] = Zero
    /\ \E h \in Hours : Lt(Zero, Get("inputs").ref_specific_yield[h])

\* C18: in every Scenario the undiscounted cashflow of year 0 is
\* -(capex + devex) * pvCapacity * (1 - loan fraction), and that of a year
\* y >= 1 is -opex[y] + pvRevenue[y] - loanPayment[y], with opex[y] =
\* opex * (1 + opex escalation)^y * pvCapacity and pvRevenue[y] = combined
\* tariff[y] * PV total[y] * 1000; the import costs are no term of it
C18_Cashflow ==
    \A s \in ScenarioObjects :
        LET inp == s.inputs
            cf == s.cashflow
        IN  /\ cf[0].cashflow =
                  Mul(Mul(Neg(Add(inp.capex, inp.devex)), inp.pv_capacity),
                      Sub(One, inp.loan))
            /\ \A y \in Years(inp) :
                  LET opex == Mul(Mul(inp.opex, Pow(Add(One, inp.opex_increase), y)),
                                  inp.pv_capacity)
                      pvRevenue == Mul(Mul(cf[y].combined_tariff, cf[y].enPV_total),
                                       Thousand)
                  IN  /\ cf[y].opex = opex
                      /\ cf[y].enPV_revenues = pvRevenue
                      /\ cf[y].cashflow =
                            Sub(Add(Neg(opex), pvRevenue), cf[y].loan_payment)

\* a Scenario with a loan being repaid, escalating opex and a year with
\* grid imports that cost something
C18_Witness ==
    \E s \in ScenarioObjects :
        /\ Lt(Zero, s.inputs.loan)
        /\ Lt(Zero, s.inputs.opex_increase)
        /\ \E y \in Years(s.inputs) :
              /\ Lt(Zero, s.cashflow[y].loan_payment)
              /\ Lt(Zero, s.cashflow[y].import_costs)
              /\ IsFinite(s.cashflow[y].cashflow)

\* C19: in the cashflow table and in the discounted-cashflow table of every
\* Scenario the cash balance of year 0 is the cashflow of year 0, and the
\* cash balance of a year y >= 1 is that of year y - 1 plus the cashflow of
\* year y, both taken from the same table
C19_CashBalance ==
    \A s \in ScenarioObjects :
        \A table \in {s.cashflow, s.discounted_cashflow} :
            /\ table[0].cash_balance = table[0].cashflow
            /\ \A y \in Years(s.inputs) :
                  table[y].cash_balance =
                      Add(table[y - 1].cash_balance, table[y].cashflow)

\* a Scenario of two years or more with a discount rate, whose two tables
\* hold different, finite balances at the last year
C19_Witness ==
    \E s \in ScenarioObjects :
        LET N == LastYear(s.cashflow)
        IN  /\ N >= 2
            /\ Lt(Zero, s.inputs.discount_rate)
            /\ IsFinite(s.cashflow[N].cash_balance)
            /\ IsFinite(s.discounted_cashflow[N].cash_balance)
            /\ s.cashflow[N].cash_balance # s.discounted_cashflow[N].cash_balance
            /\ s.cashflow[N].cash_balance # s.cashflow[N].cashflow

\* C20: the payback period reported for a cash balance is a year of the
\* resampling grid (study period * 100 points from year 1 to the last year,
\* the balance interpolated linearly between the integer years) at which the
\* absolute interpolated balance is least over the whole grid: no grid point
\* is closer to zero, whether or not the balance passed zero before it
C20_PaybackIsGlobalMinimum ==
    (call.op = "pay_back_period" /\ call.outcome # <<>>) =>
        LET N == call.study_period
            M == N * PointsPerYear
            b == interpolate(call.balance, N)
            at == {p \in 1..M :
                     Frac(new_ys(N, p), IPow(10, GridDecimals)) = call.outcome[1]}
        IN  \E p \in at : \A q \in 1..M : Le(AbsR(b[p]), AbsR(b[q]))

\* the balance -1, 3, 0 over three years passes zero during the second year,
\* between two grid points, and is back at zero in year 3: the payback
\* period is 3, after grid points at which the balance was positive
C20_Witness ==
    /\ call.op = "pay_back_period"
    /\ call.study_period = 3
    /\ call.balance[1] = Num(-1)
    /\ call.balance[2] = Num(3)
    /\ call.balance[3] = Zero
    /\ call.outcome = <<Num(3)>>
    /\ \E q \in 1..(3 * PointsPerYear) :
          /\ new_ys(3, q) < 2 * IPow(10, GridDecimals)
          /\ Lt(Zero, interpolate(call.balance, 3)[q])

\* the discount factor (1 + discount rate)^y of a Scenario's year y
DiscountFactor(s, y) == Pow(Add(One, s.inputs.discount_rate), y)

\* C21 as stated: in the discounted-cashflow table the PV revenue of a year
\* y > 0 is that table's combined tariff times its PV total times 1000, and
\* that combined tariff is the undiscounted one divided by (1 + rate)^y
C21_TariffDiscounted ==
    \A s \in ScenarioObjects : \A y \in Years(s.inputs) :
        LET d == s.discounted_cashflow[y]
        IN  /\ d.enPV_revenues =
                  Mul(Mul(d.combined_tariff, d.enPV_total), Thousand)
            /\ d.combined_tariff =
                  Div(s.cashflow[y].combined_tariff, DiscountFactor(s, y))

\* C21 amended: in the discounted-cashflow table the PV revenue of a year
\* y > 0 is that table's combined tariff times its discounted PV total times
\* 1000, and that combined tariff is the undiscounted one, unchanged: the
\* revenue is discounted once, through the PV total
C21_TariffKept ==
    \A s \in ScenarioObjects : \A y \in Years(s.inputs) :
        LET d == s.discounted_cashflow[y]
            u == s.cashflow[y]
        IN  /\ d.enPV_revenues =
                  Mul(Mul(d.combined_tariff, d.enPV_total), Thousand)
            /\ d.enPV_total = Div(u.enPV_total, DiscountFactor(s, y))
            /\ d.combined_tariff = u.combined_tariff
            /\ IsFinite(u.enPV_revenues) =>
                  d.enPV_revenues = Div(u.enPV_revenues, DiscountFactor(s, y))

\* a Scenario with a discount rate and a year of positive PV revenue
C21_Witness ==
    \E s \in ScenarioObjects : \E y \in Years(s.inputs) :
        /\ Lt(Zero, s.inputs.discount_rate)
        /\ IsFinite(s.cashflow[y].combined_tariff)
        /\ Lt(Zero, s.cashflow[y].combined_tariff)
        /\ IsFinite(s.discounted_cashflow[y].enPV_revenues)
        /\ Lt(Zero, s.discounted_cashflow[y].enPV_revenues)
        /\ Lt(s.discounted_cashflow[y].enPV_revenues, s.cashflow[y].enPV_revenues)

\* the columns of the cashflow table that _calc_discounted_cashflow divides
\* by the discount factor
DiscountedColumns ==
    {"enLoad", "enPV_total", "enPV_self_cons", "enGrid_import", "enGrid_export",
     "import_costs", "export_sales", "opex"}

\* the annuity on the borrowed part of the investment, before rounding:
\* npf.pmt returns it as a negative amount
AnnuityAmount(inp) ==
    Neg(pmt(inp.loan_rate, RoundInt(inp.loan_period),
            Mul(inp.loan, total_investment(inp))))

\* C22: in the discounted-cashflow table of every Scenario, for every year
\* y > 0, the five energy columns, the import costs, the export sales and
\* the opex are the cashflow table's values divided by (1 + rate)^y, and
\* the loan payment is the unrounded annuity amount divided by (1 + rate)^y
\* and then rounded to 0.01 while y <= loan period, 0 afterwards
C22_Discounted ==
    \A s \in ScenarioObjects : \A y \in Years(s.inputs) :
        LET d == s.discounted_cashflow[y]
            u == s.cashflow[y]
        IN  /\ \A c \in DiscountedColumns : d[c] = Div(u[c], DiscountFactor(s, y))
            /\ d.loan_payment =
                  IF Le(Num(y), s.inputs.loan_period)
                  THEN Round(Div(AnnuityAmount(s.inputs), DiscountFactor(s, y)), 2)
                  ELSE Zero

\* a Scenario with a loan of one year and a discount rate: the first year's
\* discounted payment is smaller than the undiscounted one, the second
\* year's is 0, and the opex of both years is discounted
C22_Witness ==
    \E s \in ScenarioObjects :
        /\ s.inputs.loan_period = One
        /\ LastYear(s.cashflow) = 2
        /\ Lt(Zero, s.inputs.discount_rate)
        /\ Lt(Zero, s.discounted_cashflow[1].loan_payment)
        /\ Lt(s.discounted_cashflow[1].loan_payment, s.cashflow[1].loan_payment)
        /\ s.discounted_cashflow[2].loan_payment = Zero
        /\ Lt(Zero, s.discounted_cashflow[2].opex)
        /\ Lt(s.discounted_cashflow[2].opex, s.cashflow[2].opex)

\* the sum of a table's column over the years 1..study period
YearsSum(table, c) == ColSum(Column(table, c), 1, LastYear(table))

\* equity + discounted loan payments + discounted opex - discounted export
\* sales of a Scenario, the sums over the years 1..study period
LevelisedCosts(s) ==
    LET inp == s.inputs
        equity == Mul(Mul(Add(inp.capex, inp.devex), inp.pv_capacity),
                      Sub(One, inp.loan))
    IN  Sub(Add(Add(equity, YearsSum(s.discounted_cashflow, "loan_payment")),
                YearsSum(s.discounted_cashflow, "opex")),
            YearsSum(s.discounted_cashflow, "export_sales"))

StandardAnnuity(principal, rate, n) ==
    IF rate = Zero THEN Div(principal, Num(n))
    ELSE LET growth == Pow(Add(One, rate), n)
         IN  Div(Mul(Mul(principal, rate), growth), Sub(growth, One))

\* C24: in the cashflow table of every Scenario the loan payment of a year
\* y <= loan period is the standard annuity on loan fraction * (capex +
\* devex) * pvCapacity at the loan rate over the loan period, rounded to
\* 0.01 and the same in every such year; it is 0 in every year after the
\* loan period, and 0 in every year when the loan fraction is 0
C24_Annuity ==
    \A s \in ScenarioObjects : \A y \in Years(s.inputs) :
        LET inp == s.inputs
            principal == Mul(inp.loan, Mul(Add(inp.capex, inp.devex), inp.pv_capacity))
            paid == s.cashflow[y].loan_payment
        IN  /\ Le(Num(y), inp.loan_period) =>
                  paid = Round(StandardAnnuity(principal, inp.loan_rate,
                                               RoundInt(inp.loan_period)), 2)
            /\ Lt(inp.loan_period, Num(y)) => paid = Zero
            /\ inp.loan = Zero => paid = Zero

\* a Scenario with an interest-bearing loan running over both years of the
\* study period, paid in equal amounts that exceed principal / loan period
C24_Witness ==
    \E s \in ScenarioObjects :
        LET inp == s.inputs
            principal == Mul(inp.loan, Mul(Add(inp.capex, inp.devex), inp.pv_capacity))
        IN  /\ Lt(Zero, principal)
            /\ Lt(Zero, inp.loan_rate)
            /\ LastYear(s.cashflow) = 2
            /\ Le(Num(2), inp.loan_period)
            /\ s.cashflow[1].loan_payment = s.cashflow[2].loan_payment
            /\ Lt(Div(principal, inp.loan_period), s.cashflow[1].loan_payment)

\* the last element of a grid
LastOf(grid) == grid[Len(grid)]

\* the last candidate of the secondary grid of a Sensitivity call
LastSensitivityValue(c) ==
    LastOf(linspace(c.sweep.var_min, c.sweep.var_max, c.sweep.steps))

\* the last candidate of the capacity grid of a Sensitivity call
LastCapacity(c) ==
    LastOf(generate_pv_range(c.pv.var_min, c.pv.var_max, c.pv.steps, c.pv.log_scale))

\* a Sensitivity call that has returned
SensitivityReturned ==
    /\ call.op = "Sensitivity"
    /\ call.outcome # <<>>
    /\ ~call.outcome[1].raised

\* C25 as stated: after a secondary sweep on a field of the inputs has
\* returned, that field of the shared inputs is the last candidate of the
\* secondary grid (divided by 100 for a percentage), pv_capacity is the last
\* candidate of the capacity grid, and every other field is as it was
C25_LeftAtLastCandidate ==
    (SensitivityReturned /\ call.variable \in InputFields) =>
        LET after == call.outcome[1].inputs
            last == LastSensitivityValue(call)
        IN  /\ after[call.variable] =
                  (IF UnitOf(call.variable) = "%" THEN Div(last, Num(100)) ELSE last)
            /\ LastCapacity(call).root = 1
            /\ after.pv_capacity = LastCapacity(call).radicand
            /\ \A f \in DOMAIN call.inputs \ {call.variable, "pv_capacity"} :
                  after[f] = call.inputs[f]

\* C25 amended: after a secondary sweep on a field of the inputs has
\* returned, that field of the shared inputs is the last candidate of the
\* secondary grid rounded to 4 decimals (and then divided by 100 for a
\* percentage), pv_capacity is the last candidate of the capacity grid
\* rounded to an integer, and every other field is as it was; a sweep on a
\* name that is no field returns with every field as it was
C25_LeftAtLastRounded ==
    SensitivityReturned =>
        LET after == call.outcome[1].inputs
            rounded == Round(LastSensitivityValue(call), 4)
        IN  IF call.variable \in InputFields
            THEN /\ after[call.variable] =
                       (IF UnitOf(call.variable) = "%" THEN Div(rounded, Num(100))
                        ELSE rounded)
                 /\ after.pv_capacity = Num(RoundGrid(LastCapacity(call)))
                 /\ \A f \in DOMAIN call.inputs \ {call.variable, "pv_capacity"} :
                       after[f] = call.inputs[f]
            ELSE after = call.inputs

\* the discount rate swept over 25.00004 % and 50 % with capacities 1, 2.25
\* and 3.5 on inputs of 25 % and 1 kWp: the inputs are left at 0.5 and 4 kWp
C25_Witness ==
    /\ SensitivityReturned
    /\ call.variable = "discount_rate"
    /\ call.sweep.steps = 2
    /\ call.pv.var_max = Frac(7, 2)
    /\ call.inputs.discount_rate = Frac(1, 4)
    /\ call.inputs.pv_capacity = One
    /\ call.outcome[1].inputs.discount_rate = Frac(1, 2)
    /\ call.outcome[1].inputs.pv_capacity = Num(4)

\* C26 as stated: every capacity sweep holds as many Scenarios and as many
\* aggregate rows as its grid has candidates, and no two distinct candidates
\* of a grid round to the same key
C26_OnePerCandidate ==
    \A p \in SweepObjects :
        /\ Cardinality(DOMAIN p.scenario) = Len(p.pv_range)
        /\ Len(p.data) = Len(p.pv_range)
        /\ \A i, j \in DOMAIN p.pv_range :
              p.pv_range[i] # p.pv_range[j] =>
                  RoundGrid(p.pv_range[i]) # RoundGrid(p.pv_range[j])

\* C27 as stated: the payback period of every Scenario is a number from 1
\* to the study period
C27_PaybackInStudy ==
    \A s \in ScenarioObjects :
        /\ ~IsNaN(s.data.pay_back_period)
        /\ Le(One, s.data.pay_back_period)
        /\ Le(s.data.pay_back_period, s.inputs.study_period)

\* the payback period of a Scenario whose cash balance holds numbers is a
\* year from 1 to the study period
NumericPaybackInStudy ==
    \A s \in ScenarioObjects :
        ~IsNaN(s.data.pay_back_period) =>
            /\ Le(One, s.data.pay_back_period)
            /\ Le(s.data.pay_back_period, s.inputs.study_period)

\* C28 as stated: in every Scenario whose hourly load and specific yield are
\* non-negative, whose capacity is non-negative and whose degradation is a
\* fraction from 0 to 1, the degraded capacity of every year is non-negative
\* and so is every hourly PV total, self-consumption, import and export
C28_NonNegativeEnergy ==
    \A s \in ScenarioObjects :
        LET inp == s.inputs
        IN  (/\ \A h \in Hours : Le(Zero, inp.load[h]) /\ Le(Zero, inp.ref_specific_yield[h])
             /\ Le(Zero, inp.pv_capacity)
             /\ Le(Zero, inp.pv_degradation) /\ Le(inp.pv_degradation, One))
            => \A y \in Years(inp) :
                  /\ Le(Zero, Mul(inp.pv_capacity,
                                  Sub(One, Mul(inp.pv_degradation, Frac(2 * y - 1, 2)))))
                  /\ \A h \in Hours :
                        /\ Le(Zero, s.energy_balance[y].enPV_total[h])
                        /\ Le(Zero, s.energy_balance[y].enPV_self_cons[h])
                        /\ Le(Zero, s.energy_balance[y].enGrid_import[h])
                        /\ Le(Zero, s.energy_balance[y].enGrid_export[h])

\* C29 as stated: in every Scenario with a loan the undiscounted loan
\* payments of the years 1..study period add up to the borrowed principal
\* loan fraction * (capex + devex) * pvCapacity or more, up to 0.01 of
\* rounding per payment
C29_LoanRepaid ==
    \A s \in ScenarioObjects :
        LET inp == s.inputs
            principal == Mul(inp.loan, Mul(Add(inp.capex, inp.devex), inp.pv_capacity))
            N == LastYear(s.cashflow)
        IN  Lt(Zero, inp.loan) =>
                Le(Sub(principal, Frac(N, 100)), YearsSum(s.cashflow, "loan_payment"))

\* C30: in every year of every Scenario in which PV energy was produced, the
\* PV revenue of the cashflow table is the self-consumed energy valued at the
\* import tariff plus the export sales: import tariff * PV self-consumption
\* * 1000 + export sales
C30_RevenueSplit ==
    \A s \in ScenarioObjects : \A y \in Years(s.inputs) :
        LET row == s.cashflow[y]
        IN  Lt(Zero, row.enPV_total) =>
                row.enPV_revenues =
                    Add(Mul(Mul(row.import_tariff, row.enPV_self_cons), Thousand),
                        row.export_sales)

\* a year with self-consumed and exported PV energy at an import tariff
\* above the export tariff
C30_Witness ==
    \E s \in ScenarioObjects : \E y \in Years(s.inputs) :
        LET row == s.cashflow[y]
        IN  /\ Lt(Zero, row.enPV_self_cons)
            /\ Lt(Zero, row.enGrid_export)
            /\ Lt(row.enPV_self_cons, row.enPV_total)
            /\ Lt(row.export_tariff, row.import_tariff)
            /\ Lt(row.export_sales, row.enPV_revenues)

=============================================================================
